---- MODULE Spec2Model ----
(***************************************************************************)
(* SSD1306 discovery and driver of pico-usb-io-board:                      *)
(*   I2CDetector and AutoSSD1306   (src/ssd1306/auto_detect_ssd1306.py)    *)
(*   SSD1306_128x32, the drawing   (src/ssd1306/test_ssd1306_128x32.py)    *)
(*   SpiDev over the DLN2 client   (src/tools/spidev.py)                   *)
(* Every transport call (SMBus open, write_byte_data,                      *)
(* write_i2c_block_data) either succeeds or raises; which of the two is    *)
(* the environment's choice at the moment of the call.  SMBus.close() of   *)
(* an open handle and time.sleep() do not raise.                           *)
(***************************************************************************)
EXTENDS Integers, Sequences, FiniteSets, TLC

VARIABLES
    devNodes,     \* the numbered /dev/i2c-N nodes in the order glob.glob lists them
    strayNode,    \* TRUE when glob also lists a node whose suffix is no number
    sysfs,        \* per bus number: what /sys/class/i2c-dev/i2c-N resolves to
    found_bus,    \* I2CDetector.found_bus
    found_addr,   \* I2CDetector.found_addr
    spc,          \* position inside scan_for_ssd1306: "idle" or "probing"
    dln2_buses,   \* local dln2_buses of the running scan
    bi,           \* index of the outer loop (bus_num = dln2_buses[bi])
    ai,           \* index of the inner loop (addr = possible_addresses[ai])
    scanRet,      \* what the last finished scan returned
    log,          \* transport events of the current / last scan attempt
    \* AutoSSD1306
    bus,          \* self.bus: None, or the bus number the open SMBus is bound to
    addr,         \* self.addr
    width,        \* self.width
    height,       \* self.height
    pages,        \* self.pages
    buffer,       \* self.buffer: NoBuffer, or buffer[page][col]
    pc,           \* the method of AutoSSD1306 in progress and its position
    via,          \* who called update_display: "direct" or "test_display"
    idx,          \* position in the write list of detect / init / window
    page,         \* update_display: page of the outer loop
    col,          \* update_display: i of the inner loop (start of the chunk)
    k,            \* update_display: bytes of the chunk sent by the fallback loop
    method,       \* the method called last
    ret,          \* what it returned ("running" until it does)
    exitLine,     \* the source line of the return it took (0 until it does)
    stateAtCall,  \* the session state it was called in
    initialized,  \* TRUE when the last init_display returned True
    lastWrite,    \* the last transport write of the method called last
    oplog,        \* writes and sleeps of detect_display_size / init_display
    nCmd,         \* command writes issued by the current update_display
    nBlocks,      \* block writes issued by the current update_display
    clean,        \* no write of the current update_display has failed
    sent,         \* data bytes the transport accepted in the current update_display
    \* SSD1306_128x32: drawing on self.buffer
    dpc,          \* "new": no drawing call yet; "line": inside draw_line;
                  \* "done": the call returned; "raised": it ended in IndexError
    dop,          \* the drawing call made: its name and its arguments
    before,       \* the buffer as the drawing call found it
    plotted,      \* the (x, y) of the set_pixel calls of the drawing call, in order
    x0,           \* draw_line: x0 as the loop moves it
    y0,           \* draw_line: y0 as the loop moves it
    err,          \* draw_line: err
    \* SpiDev
    client,        \* self._client: NoClient, or the Dln2Usb client
    max_speed_hz,  \* self._max_speed_hz
    mode,          \* self._mode
    bits_per_word, \* self._bits_per_word
    frame_size,    \* the frame size of the last SET_FRAME_SIZE issued; None if none
    sop,           \* the call made last on the SpiDev: its name and its arguments
    sret,          \* how it ended: "returned", "not open" or "raised"
    calls,         \* the calls it made on the DLN2 client, in order
    failed,        \* those of them that raised
    tx,            \* the bytes handed to spi_read_write by it
    clientAtCall,  \* self._client as it found it
    openCalled     \* open() was called since construction or the last close()

scanVars == <<devNodes, strayNode, sysfs, found_bus, found_addr, spc, dln2_buses, bi, ai,
              scanRet, log>>

sessVars == <<bus, addr, width, height, pages, buffer, pc, via, idx, page, col,
              k, method, ret, exitLine, stateAtCall, initialized, lastWrite, oplog,
              nCmd, nBlocks, clean, sent>>

drawVars == <<dpc, dop, before, plotted, x0, y0, err>>

spiVars == <<client, max_speed_hz, mode, bits_per_word, frame_size, sop, sret,
             calls, failed, tx, clientAtCall, openCalled>>

vars == <<scanVars, sessVars, drawVars, spiVars>>

----------------------------------------------------------------------------
(* Bounds of the model *)

\* bus numbers 0..MaxBus exist in the modelled world
MaxBus == 1

(* Program constants *)

None == -1
\* a /dev/i2c-* node whose suffix is not a number (int() raises ValueError)
BadNode == -2

CMD == 0
DATA == 64
DISPLAY_OFF == 174
DISPLAY_FOLLOWS_RAM == 164

possible_addresses == <<60, 61>>

BusIds == 0 .. MaxBus
SysfsKinds == {"missing", "dln2", "other"}

----------------------------------------------------------------------------
(* I2CDetector *)

\* what glob.glob('/dev/i2c-*') returns
Glob(nodes, stray) == IF stray THEN nodes \o <<BadNode>> ELSE nodes

SelectNumbered(s) == SelectSeq(s, LAMBDA n : n # BadNode)

\* the buses in glob's order: the sort of line 27 left out
find_i2c_buses_unsorted(nodes) == SelectNumbered(nodes)

\* find_i2c_buses: parse the node suffixes, skip the unparsable, sort
find_i2c_buses(nodes) ==
    SortSeq(SelectNumbered(nodes), LAMBDA a, b : a < b)

\* every bus with a sysfs entry passes: the substring test of line 41 left out
is_dln2_i2c_bus_any(bus_num, fs) ==
    /\ bus_num \in DOMAIN fs
    /\ fs[bus_num] # "missing"

\* is_dln2_i2c_bus: the sysfs entry exists and its real path holds "dln2"
is_dln2_i2c_bus(bus_num, fs) ==
    /\ bus_num \in DOMAIN fs
    /\ fs[bus_num] # "missing"
    /\ fs[bus_num] = "dln2"

\* find_dln2_i2c_buses: the buses of find_i2c_buses that pass the filter
find_dln2_i2c_buses(nodes, fs) ==
    SelectSeq(find_i2c_buses(nodes), LAMBDA b : is_dln2_i2c_bus(b, fs))

Ev(op, b, a, c, v, ok) ==
    [op |-> op, bus |-> b, addr |-> a, ctrl |-> c, val |-> v, ok |-> ok]

ProbeOutcomes == {"open_fail", "w1_fail", "w2_fail", "ok"}

\* the exception leaves test_ssd1306_on_bus: no except clause
ProbeExcept_propagate(evs, opened, b, a) ==
    [ret |-> "raised", events |-> evs]

\* the except clause returns False without closing the handle
ProbeExcept_no_close(evs, opened, b, a) ==
    [ret |-> "False", events |-> evs]

\* what raising inside test_ssd1306_on_bus leads to: the except clause
\* closes the handle if there is one and returns False
ProbeExcept(evs, opened, b, a) ==
    [ret |-> "False",
     events |-> IF opened THEN evs \o <<Ev("close", b, a, 0, 0, TRUE)>> ELSE evs]

\* the probe accepts after its first write, whatever the second does
test_ssd1306_on_bus_first_only(b, a, outcome) ==
    LET open(ok) == Ev("open", b, a, 0, 0, ok)
        w1(ok) == Ev("write", b, a, CMD, DISPLAY_OFF, ok)
        w2(ok) == Ev("write", b, a, CMD, DISPLAY_FOLLOWS_RAM, ok)
        close == Ev("close", b, a, 0, 0, TRUE)
    IN  CASE outcome = "open_fail" ->
               ProbeExcept(<<open(FALSE)>>, FALSE, b, a)
          [] outcome = "w1_fail" ->
               ProbeExcept(<<open(TRUE), w1(FALSE)>>, TRUE, b, a)
          [] outcome = "w2_fail" ->
               [ret |-> "True",
                events |-> <<open(TRUE), w1(TRUE), w2(FALSE), close>>]
          [] OTHER ->
               [ret |-> "True",
                events |-> <<open(TRUE), w1(TRUE), w2(TRUE), close>>]

\* the second probe write goes out in data mode
test_ssd1306_on_bus_data_mode(b, a, outcome) ==
    LET open(ok) == Ev("open", b, a, 0, 0, ok)
        w1(ok) == Ev("write", b, a, CMD, DISPLAY_OFF, ok)
        w2(ok) == Ev("write", b, a, DATA, DISPLAY_FOLLOWS_RAM, ok)
    IN  CASE outcome = "open_fail" ->
               ProbeExcept(<<open(FALSE)>>, FALSE, b, a)
          [] outcome = "w1_fail" ->
               ProbeExcept(<<open(TRUE), w1(FALSE)>>, TRUE, b, a)
          [] outcome = "w2_fail" ->
               ProbeExcept(<<open(TRUE), w1(TRUE), w2(FALSE)>>, TRUE, b, a)
          [] OTHER ->
               [ret |-> "True",
                events |-> <<open(TRUE), w1(TRUE), w2(TRUE),
                             Ev("close", b, a, 0, 0, TRUE)>>]

\* test_ssd1306_on_bus(bus_num, addr) under one outcome of its transport calls
test_ssd1306_on_bus(b, a, outcome) ==
    LET open(ok) == Ev("open", b, a, 0, 0, ok)
        w1(ok) == Ev("write", b, a, CMD, DISPLAY_OFF, ok)
        w2(ok) == Ev("write", b, a, CMD, DISPLAY_FOLLOWS_RAM, ok)
    IN  CASE outcome = "open_fail" ->
               ProbeExcept(<<open(FALSE)>>, FALSE, b, a)
          [] outcome = "w1_fail" ->
               ProbeExcept(<<open(TRUE), w1(FALSE)>>, TRUE, b, a)
          [] outcome = "w2_fail" ->
               ProbeExcept(<<open(TRUE), w1(TRUE), w2(FALSE)>>, TRUE, b, a)
          [] OTHER ->
               [ret |-> "True",
                events |-> <<open(TRUE), w1(TRUE), w2(TRUE),
                             Ev("close", b, a, 0, 0, TRUE)>>]

\* get_connection_info: the found pair, or None
get_connection_info(fb, fa) ==
    IF fb # None /\ fa # None THEN <<fb, fa>> ELSE <<>>

\* scan_for_ssd1306, lines 84-96: enumerate, filter, return False if empty
ScanEnter ==
    /\ spc = "idle"
    /\ log' = <<>>
    /\ dln2_buses' = find_dln2_i2c_buses(Glob(devNodes, strayNode), sysfs)
    /\ bi' = 1
    /\ ai' = 1
    /\ IF dln2_buses' = <<>>
       THEN spc' = "idle" /\ scanRet' = "False"
       ELSE spc' = "probing" /\ scanRet' = "none"
    /\ UNCHANGED <<devNodes, strayNode, sysfs, found_bus, found_addr>>

\* scan_for_ssd1306 called on the detector itself
ScanBegin ==
    /\ pc = "idle"
    /\ ScanEnter
    /\ UNCHANGED <<sessVars, drawVars, spiVars>>

\* scan_for_ssd1306, lines 98-113: one iteration of the inner loop
ScanProbe ==
    /\ spc = "probing"
    /\ \E outcome \in ProbeOutcomes :
         LET b == dln2_buses[bi]
             a == possible_addresses[ai]
             r == test_ssd1306_on_bus(b, a, outcome)
         IN  /\ log' = log \o r.events
             /\ CASE r.ret = "True" ->
                      /\ found_bus' = b
                      /\ found_addr' = a
                      /\ scanRet' = "True"
                      /\ spc' = "idle"
                      /\ UNCHANGED <<bi, ai>>
                  [] r.ret = "False" /\ ai < Len(possible_addresses) ->
                      /\ ai' = ai + 1
                      /\ UNCHANGED <<found_bus, found_addr, scanRet, spc, bi>>
                  [] r.ret = "False" /\ ai = Len(possible_addresses)
                                     /\ bi < Len(dln2_buses) ->
                      /\ bi' = bi + 1
                      /\ ai' = 1
                      /\ UNCHANGED <<found_bus, found_addr, scanRet, spc>>
                  [] r.ret = "False" /\ ai = Len(possible_addresses)
                                     /\ bi = Len(dln2_buses) ->
                      /\ scanRet' = "False"
                      /\ spc' = "idle"
                      /\ UNCHANGED <<found_bus, found_addr, bi, ai>>
                  [] OTHER ->
                      \* an exception left test_ssd1306_on_bus
                      /\ scanRet' = "raised"
                      /\ spc' = "idle"
                      /\ UNCHANGED <<found_bus, found_addr, bi, ai>>
    /\ UNCHANGED <<devNodes, strayNode, sysfs, dln2_buses>>
    /\ UNCHANGED <<sessVars, drawVars, spiVars>>

\* The locals of a finished scan are gone once its caller has used the
\* result or the world has changed, and the record of its transport events
\* is dropped with them.
Forget ==
    /\ dln2_buses' = <<>>
    /\ bi' = 1
    /\ ai' = 1
    /\ scanRet' = "none"
    /\ log' = <<>>

\* a node appears in /dev, at any place of glob's listing
PlugNode ==
    /\ spc = "idle"
    /\ \E n \in BusIds, p \in 0 .. Len(devNodes) :
         /\ \A q \in DOMAIN devNodes : devNodes[q] # n
         /\ devNodes' = SubSeq(devNodes, 1, p) \o <<n>>
                           \o SubSeq(devNodes, p + 1, Len(devNodes))
    /\ Forget
    /\ UNCHANGED <<strayNode, sysfs, found_bus, found_addr, spc>>
    /\ UNCHANGED <<sessVars, drawVars, spiVars>>

\* a node disappears from /dev
UnplugNode ==
    /\ spc = "idle"
    /\ \E p \in DOMAIN devNodes :
         devNodes' = SubSeq(devNodes, 1, p - 1)
                       \o SubSeq(devNodes, p + 1, Len(devNodes))
    /\ Forget
    /\ UNCHANGED <<strayNode, sysfs, found_bus, found_addr, spc>>
    /\ UNCHANGED <<sessVars, drawVars, spiVars>>

\* a node with a non-numeric suffix appears in /dev or disappears
ToggleStrayNode ==
    /\ spc = "idle"
    /\ strayNode' = ~strayNode
    /\ Forget
    /\ UNCHANGED <<devNodes, sysfs, found_bus, found_addr, spc>>
    /\ UNCHANGED <<sessVars, drawVars, spiVars>>

\* the sysfs entry of a bus changes (driver bound, unbound, other adapter)
RebindSysfs ==
    /\ spc = "idle"
    /\ \E b \in BusIds, kind \in SysfsKinds :
         /\ sysfs[b] # kind
         /\ sysfs' = [sysfs EXCEPT ![b] = kind]
    /\ Forget
    /\ UNCHANGED <<devNodes, strayNode, found_bus, found_addr, spc>>
    /\ UNCHANGED <<sessVars, drawVars, spiVars>>

----------------------------------------------------------------------------
(* AutoSSD1306 *)

NoBuffer == <<>>

\* the two ranges of the comprehension swapped: width rows of pages bytes
ZeroBuffer_transposed(np, w) == [p \in 0 .. w - 1 |-> [c \in 0 .. np - 1 |-> 0]]

\* [[0x00 for _ in range(width)] for _ in range(pages)]
ZeroBuffer(np, w) == [p \in 0 .. np - 1 |-> [c \in 0 .. w - 1 |-> 0]]

\* the frame without its top and bottom line
FrameBuffer_columns_only(np, w) ==
    [p \in 0 .. np - 1 |-> [c \in 0 .. w - 1 |-> IF c = 0 \/ c = w - 1 THEN 255 ELSE 0]]

\* test_display, lines 245-258: clear, top and bottom line, left and right line
FrameBuffer(np, w) ==
    [p \in 0 .. np - 1 |->
        [c \in 0 .. w - 1 |->
            IF c = 0 \/ c = w - 1 THEN 255
            ELSE IF p = np - 1 THEN 128
            ELSE IF p = 0 THEN 1
            ELSE 0]]

\* the states of the session, read off the fields the code keeps
SessionState ==
    IF bus = None THEN "Unconnected"
    ELSE IF buffer = NoBuffer THEN "Connected"
    ELSE IF ~initialized THEN "SizeKnown"
    ELSE "Initialized"

NoWrite ==
    [kind |-> "none", addr |-> 0, ctrl |-> 0, val |-> 0, data |-> <<>>,
     ok |-> TRUE, pg |-> 0, cl |-> 0]

\* bus.write_byte_data(addr, ctrl, val); pg, cl: the buffer cell val was read from
ByteWrite(a, c, v, ok, pg, cl) ==
    [kind |-> "byte", addr |-> a, ctrl |-> c, val |-> v, data |-> <<>>,
     ok |-> ok, pg |-> pg, cl |-> cl]

\* bus.write_i2c_block_data(addr, ctrl, data); pg, cl: where the chunk starts
BlockWrite(a, c, d, ok, pg, cl) ==
    [kind |-> "block", addr |-> a, ctrl |-> c, val |-> 0, data |-> d,
     ok |-> ok, pg |-> pg, cl |-> cl]

\* time.sleep(0.001)
Sleep == [NoWrite EXCEPT !.kind = "sleep"]

\* detect_display_size: the five trial writes
DetectSeq == <<174, 168, 63, 168, 31>>

\* init_display: commands
commands ==
    <<174, 168, 31, 211, 0, 64, 141, 20, 32, 0, 161, 200, 218, 2, 129, 255,
      217, 241, 219, 64, 164, 166, 175>>

\* init_display: two_byte
two_byte == {168, 211, 141, 32, 218, 129, 217, 219}

CHUNK == 16

\* the page window is set before the column window
WindowSeq_pages_first(np) == <<34, 0, np - 1, 33, 0, 127>>

\* update_display: the six addressing-window writes
WindowSeq(np) == <<33, 0, 127, 34, 0, np - 1>>

\* buffer[page][i:i+16] as a sequence
Chunk(buf, pg, i, w) ==
    LET hi == IF i + CHUNK < w THEN i + CHUNK ELSE w
    IN  [j \in 1 .. hi - i |-> buf[pg][i + j - 1]]

\* a method is entered: its locals are fresh and the record of the
\* previous call is dropped
Begin(name, caller) ==
    /\ method' = name
    /\ via' = caller
    /\ idx' = 1
    /\ page' = 0
    /\ col' = 0
    /\ k' = 0
    /\ stateAtCall' = SessionState
    /\ lastWrite' = NoWrite
    /\ oplog' = <<>>
    /\ nCmd' = 0
    /\ nBlocks' = 0
    /\ clean' = TRUE
    /\ sent' = 0

Return(value, line) ==
    /\ ret' = value
    /\ exitLine' = line
    /\ pc' = "idle"

Running(pos) ==
    /\ ret' = "running"
    /\ exitLine' = 0
    /\ pc' = pos

\* auto_connect, line 140: the scan starts
AutoConnectCall ==
    /\ pc = "idle"
    /\ ScanEnter
    /\ Begin("auto_connect", "direct")
    /\ Running("auto_connect")
    /\ UNCHANGED <<bus, addr, width, height, pages, buffer, initialized>>
    /\ UNCHANGED <<drawVars, spiVars>>

\* auto_connect, lines 140-156: the scan has returned
AutoConnectReturn ==
    /\ pc = "auto_connect"
    /\ spc = "idle"
    /\ LET conn_info == get_connection_info(found_bus, found_addr)
       IN  CASE scanRet = "False" ->
                  Return("False", 142) /\ UNCHANGED <<bus, addr>>
             [] scanRet = "True" /\ conn_info # <<>> ->
                  \E openOk \in BOOLEAN :
                      IF openOk
                      THEN /\ bus' = conn_info[1]
                           /\ addr' = conn_info[2]
                           /\ Return("True", 153)
                      ELSE Return("False", 156) /\ UNCHANGED <<bus, addr>>
             [] OTHER ->
                  Return("raised", 140) /\ UNCHANGED <<bus, addr>>
    /\ UNCHANGED <<width, height, pages, buffer, via, idx, page, col, k, method,
                   stateAtCall, initialized, lastWrite, oplog, nCmd, nBlocks,
                   clean, sent>>
    /\ Forget
    /\ UNCHANGED <<devNodes, strayNode, sysfs, found_bus, found_addr, spc>>
    /\ UNCHANGED <<drawVars, spiVars>>

\* the test of the transport is left out
NoBus_never == FALSE

\* detect_display_size, line 160, init_display, line 193: not self.bus
NoBus == bus = None

\* the height of the first trial (0x3F: 64 rows) is kept when it is accepted
DetectedGeometry_tall(ok) ==
    [height |-> IF ok THEN 64 ELSE 32, pages |-> 4]

\* detect_display_size, lines 176-185: what the detection settles on after
\* its trial writes went through (ok) or one of them raised
DetectedGeometry(ok) == [height |-> 32, pages |-> 4]

\* detect_display_size, lines 158-163
DetectCall ==
    /\ pc = "idle"
    /\ Begin("detect_display_size", "direct")
    /\ IF NoBus
       THEN Return("False", 161)
       ELSE Running("detect")
    /\ UNCHANGED <<bus, addr, width, height, pages, buffer, initialized>>
    /\ UNCHANGED <<scanVars, drawVars, spiVars>>

\* detect_display_size, lines 166-189: one trial write; after the last one,
\* or after one that raises, the geometry is set and the buffer allocated
DetectStep ==
    /\ pc = "detect"
    /\ \E ok \in BOOLEAN :
         LET w == ByteWrite(addr, CMD, DetectSeq[idx], ok, 0, 0)
         IN  /\ lastWrite' = w
             /\ oplog' = Append(oplog, w)
             /\ IF ok /\ idx < Len(DetectSeq)
                THEN /\ idx' = idx + 1
                     /\ UNCHANGED <<height, pages, buffer, pc, ret, exitLine>>
                ELSE /\ height' = DetectedGeometry(ok).height
                     /\ pages' = DetectedGeometry(ok).pages
                     /\ buffer' = ZeroBuffer(pages', width)
                     /\ Return("True", 189)
                     /\ UNCHANGED idx
    /\ UNCHANGED <<bus, addr, width, via, page, col, k, method, stateAtCall,
                   initialized, nCmd, nBlocks, clean, sent>>
    /\ UNCHANGED <<scanVars, drawVars, spiVars>>

\* init_display, lines 191-196
InitCall ==
    /\ pc = "idle"
    /\ Begin("init_display", "direct")
    /\ IF NoBus
       THEN Return("False", 194)
       ELSE Running("init")
    /\ UNCHANGED <<bus, addr, width, height, pages, buffer, initialized>>
    /\ UNCHANGED <<scanVars, drawVars, spiVars>>

\* the failure of a write is swallowed and the loop goes on with the next byte
InitFailed_continue ==
    idx' = idx + 1 /\ UNCHANGED <<initialized, pc, ret, exitLine>>

\* init_display, lines 232-234: the except clause ends the call
InitFailed ==
    initialized' = FALSE /\ Return("False", 234) /\ UNCHANGED idx

\* init_display, lines 217-234: one iteration of the while loop
\* (commands[i] is commands[idx] here, idx = i + 1)
InitStep ==
    /\ pc = "init"
    /\ LET two == idx + 1 <= Len(commands) /\ commands[idx] \in two_byte
           w1(ok) == ByteWrite(addr, CMD, commands[idx], ok, 0, 0)
           w2(ok) == ByteWrite(addr, CMD, commands[idx + 1], ok, 0, 0)
       IN  \E o \in {"ok", "w1_fail", "w2_fail"} :
             /\ o = "w2_fail" => two
             /\ CASE o = "w1_fail" ->
                      /\ oplog' = Append(oplog, w1(FALSE))
                      /\ lastWrite' = w1(FALSE)
                      /\ InitFailed
                  [] o = "w2_fail" ->
                      /\ oplog' = oplog \o <<w1(TRUE), w2(FALSE)>>
                      /\ lastWrite' = w2(FALSE)
                      /\ InitFailed
                  [] OTHER ->
                      /\ oplog' = oplog \o (IF two THEN <<w1(TRUE), w2(TRUE), Sleep>>
                                                   ELSE <<w1(TRUE), Sleep>>)
                      /\ lastWrite' = IF two THEN w2(TRUE) ELSE w1(TRUE)
                      /\ idx' = IF two THEN idx + 2 ELSE idx + 1
                      /\ IF idx' <= Len(commands)
                         THEN UNCHANGED <<initialized, pc, ret, exitLine>>
                         ELSE initialized' = TRUE /\ Return("True", 230)
    /\ UNCHANGED <<bus, addr, width, height, pages, buffer, via, page, col, k,
                   method, stateAtCall, nCmd, nBlocks, clean, sent>>
    /\ UNCHANGED <<scanVars, drawVars, spiVars>>

\* update_display rejects the call without a bus: the buffer test left out
NotReady_bus_only == bus = None

\* update_display, line 271: not self.bus or not self.buffer
NotReady == bus = None \/ buffer = NoBuffer

\* update_display, lines 269-272, called by the user of the class
UpdateDisplayCall ==
    /\ pc = "idle"
    /\ Begin("update_display", "direct")
    /\ IF NotReady
       THEN Return("None", 272)
       ELSE Running("window")
    /\ UNCHANGED <<bus, addr, width, height, pages, buffer, initialized>>
    /\ UNCHANGED <<scanVars, drawVars, spiVars>>

\* test_display, lines 236-261: draws the frame and calls update_display
TestDisplayCall ==
    /\ pc = "idle"
    /\ Begin("test_display", "test_display")
    /\ IF bus = None \/ buffer = NoBuffer
       THEN Return("False", 239) /\ UNCHANGED buffer
       ELSE /\ buffer' = FrameBuffer(pages, width)
            /\ Running("window")
    /\ UNCHANGED <<bus, addr, width, height, pages, initialized>>
    /\ UNCHANGED <<scanVars, drawVars, spiVars>>

\* update_display has run to its end (line 290; test_display: line 263)
FlushFinish ==
    IF via = "test_display" THEN Return("True", 263) ELSE Return("None", 290)

\* the write that raised is issued again instead of ending the call
FlushAbort_retry(ln) == UNCHANGED <<pc, ret, exitLine>>

\* a write of update_display raised at source line ln and nothing in
\* update_display catches it (test_display does: line 265-267)
FlushAbort(ln) ==
    IF via = "test_display" THEN Return("False", 267) ELSE Return("raised", ln)

\* update_display, lines 283-284: the loops move on to the next chunk
NextChunk ==
    IF col + CHUNK < width
    THEN col' = col + CHUNK /\ k' = 0 /\ pc' = "data"
           /\ UNCHANGED <<page, ret, exitLine>>
    ELSE IF page + 1 < pages
         THEN page' = page + 1 /\ col' = 0 /\ k' = 0 /\ pc' = "data"
                /\ UNCHANGED <<ret, exitLine>>
         ELSE FlushFinish /\ UNCHANGED <<page, col, k>>

\* the rejection of a block write leaves update_display: no except clause
OnBlockRejected_raise ==
    FlushAbort(287) /\ UNCHANGED <<page, col, k>>

\* the byte loop after a rejected block starts at the second byte of the chunk
OnBlockRejected_skip_first ==
    pc' = "fallback" /\ k' = 1 /\ UNCHANGED <<page, col, ret, exitLine>>

\* update_display, lines 288-289: the except clause starts the byte loop
OnBlockRejected ==
    pc' = "fallback" /\ k' = 0 /\ UNCHANGED <<page, col, ret, exitLine>>

\* update_display, lines 275-280: one of the six addressing-window writes
FlushWindowStep ==
    /\ pc = "window"
    /\ \E ok \in BOOLEAN :
         /\ lastWrite' = ByteWrite(addr, CMD, WindowSeq(pages)[idx], ok, 0, 0)
         /\ nCmd' = nCmd + 1
         /\ clean' = (clean /\ ok)
         /\ IF ~ok
            THEN FlushAbort(274 + idx) /\ UNCHANGED <<idx, page, col, k>>
            ELSE IF idx < Len(WindowSeq(pages))
                 THEN idx' = idx + 1 /\ UNCHANGED <<pc, ret, exitLine, page, col, k>>
                 ELSE IF pages > 0 /\ width > 0
                      THEN /\ page' = 0 /\ col' = 0 /\ k' = 0 /\ pc' = "data"
                           /\ UNCHANGED <<idx, ret, exitLine>>
                      ELSE FlushFinish /\ UNCHANGED <<idx, page, col, k>>
    /\ UNCHANGED <<bus, addr, width, height, pages, buffer, via, method,
                   stateAtCall, initialized, oplog, nBlocks, sent>>
    /\ UNCHANGED <<scanVars, drawVars, spiVars>>

\* the chunk is taken out of the buffer once it is handed to the bus
BufferAfterChunk_consumed(buf, pg, i) ==
    [buf EXCEPT ![pg] = [c \in DOMAIN buf[pg] |->
                            IF c >= i /\ c < i + CHUNK THEN 0 ELSE buf[pg][c]]]

\* update_display, line 285: buffer[page][i:i+16] is a copy, the buffer
\* itself is only read
BufferAfterChunk(buf, pg, i) == buf

\* update_display, lines 285-288: the block write of one chunk
FlushBlockStep ==
    /\ pc = "data"
    /\ \E ok \in BOOLEAN :
         /\ lastWrite' =
               BlockWrite(addr, DATA, Chunk(buffer, page, col, width), ok, page, col)
         /\ nBlocks' = nBlocks + 1
         /\ sent' = IF ok THEN sent + Len(lastWrite'.data) ELSE sent
         /\ clean' = (clean /\ ok)
         /\ IF ok
            THEN NextChunk
            ELSE OnBlockRejected
    /\ buffer' = BufferAfterChunk(buffer, page, col)
    /\ UNCHANGED <<bus, addr, width, height, pages, via, idx, method,
                   stateAtCall, initialized, oplog, nCmd>>
    /\ UNCHANGED <<scanVars, drawVars, spiVars>>

\* update_display, lines 289-290: one byte of the rejected chunk
FlushByteStep ==
    /\ pc = "fallback"
    /\ \E ok \in BOOLEAN :
         LET chunk == Chunk(buffer, page, col, width)
         IN  /\ lastWrite' = ByteWrite(addr, DATA, chunk[k + 1], ok, page, col + k)
             /\ clean' = FALSE
             /\ sent' = IF ok THEN sent + 1 ELSE sent
             /\ IF ~ok
                THEN FlushAbort(290) /\ UNCHANGED <<page, col, k>>
                ELSE IF k + 1 < Len(chunk)
                     THEN k' = k + 1 /\ UNCHANGED <<page, col, pc, ret, exitLine>>
                     ELSE NextChunk
    /\ UNCHANGED <<bus, addr, width, height, pages, buffer, via, idx, method,
                   stateAtCall, initialized, oplog, nCmd, nBlocks>>
    /\ UNCHANGED <<scanVars, drawVars, spiVars>>

\* AutoSSD1306.__init__
SessionInit ==
    /\ bus = None
    /\ addr = None
    /\ width = 128
    /\ height = 32
    /\ pages = 4
    /\ buffer = NoBuffer
    /\ pc = "idle"
    /\ via = "direct"
    /\ idx = 1
    /\ page = 0
    /\ col = 0
    /\ k = 0
    /\ method = "__init__"
    /\ ret = "None"
    /\ exitLine = 134
    /\ stateAtCall = "Unconnected"
    /\ initialized = FALSE
    /\ lastWrite = NoWrite
    /\ oplog = <<>>
    /\ nCmd = 0
    /\ nBlocks = 0
    /\ clean = TRUE
    /\ sent = 0

\* no drawing call has been made
NoCall == [name |-> "none", args |-> <<>>]

DrawIdle ==
    /\ dpc = "new"
    /\ dop = NoCall
    /\ before = NoBuffer
    /\ plotted = <<>>
    /\ x0 = 0
    /\ y0 = 0
    /\ err = 0

\* self._client of a SpiDev that is not open
NoClient == "None"

\* SpiDev.__init__
SpiDevInit ==
    /\ client = NoClient
    /\ max_speed_hz = 1000000
    /\ mode = 0
    /\ bits_per_word = 8
    /\ frame_size = None
    /\ sop = [name |-> "__init__", args |-> <<>>]
    /\ sret = "returned"
    /\ calls = <<>>
    /\ failed = {}
    /\ tx = <<>>
    /\ clientAtCall = NoClient
    /\ openCalled = FALSE

DetectorInit ==
    /\ found_bus = None
    /\ found_addr = None
    /\ spc = "idle"
    /\ dln2_buses = <<>>
    /\ bi = 1
    /\ ai = 1
    /\ scanRet = "none"
    /\ log = <<>>

ScanInit ==
    /\ devNodes = <<>>
    /\ strayNode = FALSE
    /\ sysfs = [b \in BusIds |-> "missing"]
    /\ DetectorInit
    /\ SessionInit
    /\ DrawIdle
    /\ SpiDevInit

ScanNext ==
    \/ ScanBegin
    \/ ScanProbe
    \/ PlugNode
    \/ UnplugNode
    \/ ToggleStrayNode
    \/ RebindSysfs

ScanSpec == ScanInit /\ [][ScanNext]_vars

\* one DLN2 adapter on bus 0 and a display session on it
Init ==
    /\ devNodes = <<0>>
    /\ strayNode = FALSE
    /\ sysfs = [b \in BusIds |-> IF b = 0 THEN "dln2" ELSE "missing"]
    /\ DetectorInit
    /\ SessionInit
    /\ DrawIdle
    /\ SpiDevInit

Next ==
    \/ AutoConnectCall
    \/ ScanProbe
    \/ AutoConnectReturn
    \/ DetectCall
    \/ DetectStep
    \/ InitCall
    \/ InitStep
    \/ UpdateDisplayCall
    \/ TestDisplayCall
    \/ FlushWindowStep
    \/ FlushBlockStep
    \/ FlushByteStep

Spec == Init /\ [][Next]_vars

----------------------------------------------------------------------------
(* SSD1306_128x32: the drawing primitives.  A behaviour of DrawSpec is one *)
(* drawing call on a buffer of one of the prior contents.                  *)

\* coordinates are taken up to Margin outside the buffer
Margin == 1

\* the endpoints of a line lie in boxes of this extent
LineSpan == 3

\* w and h of a rectangle go up to MaxRect
MaxRect == 3

\* the texts drawn have up to MaxText characters
MaxText == 2

\* bit b of the byte v
Bit(v, b) == (v \div (2 ^ b)) % 2

\* v | (1 << b)
OrBit(v, b) == IF Bit(v, b) = 1 THEN v ELSE v + 2 ^ b

\* v & ~(1 << b)
AndNotBit(v, b) == IF Bit(v, b) = 1 THEN v - 2 ^ b ELSE v

\* a[i] of a Python list of length n: a negative i counts from the end
PyIndex(i, n) == IF i < 0 THEN i + n ELSE i

\* the test of the coordinates has no lower bounds
set_pixel_no_lower_bound(buf, x, y, color) ==
    IF x < width /\ y < height
    THEN LET pg == PyIndex(y \div 8, pages)
             cl == PyIndex(x, width)
             bit == y % 8
         IN  [buf EXCEPT ![pg][cl] = IF color # 0 THEN OrBit(@, bit)
                                                  ELSE AndNotBit(@, bit)]
    ELSE buf

\* the byte is assigned instead of or-ed and and-ed
set_pixel_overwrite(buf, x, y, color) ==
    IF 0 <= x /\ x < width /\ 0 <= y /\ y < height
    THEN LET pg == y \div 8
             bit == y % 8
         IN  [buf EXCEPT ![pg][x] = IF color # 0 THEN 2 ^ bit ELSE 0]
    ELSE buf

RECURSIVE OrByte(_, _, _)
\* v | m, from bit b upwards
OrByte(v, m, b) ==
    IF b > 7
    THEN 0
    ELSE (IF Bit(v, b) = 1 \/ Bit(m, b) = 1 THEN 2 ^ b ELSE 0) + OrByte(v, m, b + 1)

\* the byte is or-ed with bit instead of 1 << bit
set_pixel_no_shift(buf, x, y, color) ==
    IF 0 <= x /\ x < width /\ 0 <= y /\ y < height
    THEN LET pg == y \div 8
             bit == y % 8
         IN  [buf EXCEPT ![pg][x] = IF color # 0 THEN OrByte(@, bit, 0)
                                                 ELSE AndNotBit(@, bit)]
    ELSE buf

\* set_pixel, lines 141-149: the buffer after set_pixel(x, y, color) on buf
set_pixel(buf, x, y, color) ==
    IF 0 <= x /\ x < width /\ 0 <= y /\ y < height
    THEN LET pg == y \div 8
             bit == y % 8
         IN  [buf EXCEPT ![pg][x] = IF color # 0 THEN OrBit(@, bit)
                                                 ELSE AndNotBit(@, bit)]
    ELSE buf

RECURSIVE PlotAll(_, _)
\* the buffer after set_pixel(x, y, 1) for each (x, y) of pts in order
PlotAll(buf, pts) ==
    IF pts = <<>>
    THEN buf
    ELSE PlotAll(set_pixel(buf, Head(pts)[1], Head(pts)[2], 1), Tail(pts))

\* draw_rect, lines 209-222: the set_pixel calls of draw_rect(x, y, w, h, fill)
\* in the order the loops make them
draw_rect(x, y, w, h, fill) ==
    IF fill
    THEN [i \in 1 .. w * h |-> <<x + ((i - 1) % w), y + ((i - 1) \div w)>>]
    ELSE [i \in 1 .. 2 * w |->
              IF i % 2 = 1 THEN <<x + ((i - 1) \div 2), y>>
                           ELSE <<x + ((i - 1) \div 2), y + h - 1>>]
         \o [i \in 1 .. 2 * h |->
              IF i % 2 = 1 THEN <<x, y + ((i - 1) \div 2)>>
                           ELSE <<x + w - 1, y + ((i - 1) \div 2)>>]

\* draw_char, lines 154-195: font, the six column bytes of each character
font ==
    "A" :> <<0, 124, 18, 17, 18, 124>> @@
    "B" :> <<0, 127, 73, 73, 73, 54>> @@
    "C" :> <<0, 62, 65, 65, 65, 34>> @@
    "D" :> <<0, 127, 65, 65, 34, 28>> @@
    "E" :> <<0, 127, 73, 73, 73, 65>> @@
    "F" :> <<0, 127, 9, 9, 9, 1>> @@
    "G" :> <<0, 62, 65, 73, 73, 122>> @@
    "H" :> <<0, 127, 8, 8, 8, 127>> @@
    "I" :> <<0, 0, 65, 127, 65, 0>> @@
    "J" :> <<0, 32, 64, 65, 63, 1>> @@
    "K" :> <<0, 127, 8, 20, 34, 65>> @@
    "L" :> <<0, 127, 64, 64, 64, 64>> @@
    "M" :> <<0, 127, 2, 4, 2, 127>> @@
    "N" :> <<0, 127, 4, 8, 16, 127>> @@
    "O" :> <<0, 62, 65, 65, 65, 62>> @@
    "P" :> <<0, 127, 9, 9, 9, 6>> @@
    "Q" :> <<0, 62, 65, 81, 33, 94>> @@
    "R" :> <<0, 127, 9, 25, 41, 70>> @@
    "S" :> <<0, 70, 73, 73, 73, 49>> @@
    "T" :> <<0, 1, 1, 127, 1, 1>> @@
    "U" :> <<0, 63, 64, 64, 64, 63>> @@
    "V" :> <<0, 31, 32, 64, 32, 31>> @@
    "W" :> <<0, 63, 64, 48, 64, 63>> @@
    "X" :> <<0, 99, 20, 8, 20, 99>> @@
    "Y" :> <<0, 7, 8, 112, 8, 7>> @@
    "Z" :> <<0, 97, 81, 73, 69, 67>> @@
    " " :> <<0, 0, 0, 0, 0, 0>> @@
    "!" :> <<0, 0, 0, 95, 0, 0>> @@
    "?" :> <<0, 2, 1, 81, 9, 6>> @@
    ":" :> <<0, 0, 54, 54, 0, 0>> @@
    "0" :> <<0, 62, 81, 73, 69, 62>> @@
    "1" :> <<0, 0, 66, 127, 64, 0>> @@
    "2" :> <<0, 66, 97, 81, 73, 70>> @@
    "3" :> <<0, 33, 65, 69, 75, 49>> @@
    "4" :> <<0, 24, 20, 18, 127, 16>> @@
    "5" :> <<0, 39, 69, 69, 69, 57>> @@
    "6" :> <<0, 60, 74, 73, 73, 48>> @@
    "7" :> <<0, 1, 113, 9, 5, 3>> @@
    "8" :> <<0, 54, 73, 73, 73, 54>> @@
    "9" :> <<0, 6, 73, 73, 41, 30>>

\* str.upper() on one character of the texts drawn: the letters a-z
upper ==
    "a" :> "A" @@ "b" :> "B" @@ "c" :> "C" @@ "d" :> "D" @@
    "e" :> "E" @@ "f" :> "F" @@ "g" :> "G" @@ "h" :> "H" @@
    "i" :> "I" @@ "j" :> "J" @@ "k" :> "K" @@ "l" :> "L" @@
    "m" :> "M" @@ "n" :> "N" @@ "o" :> "O" @@ "p" :> "P" @@
    "q" :> "Q" @@ "r" :> "R" @@ "s" :> "S" @@ "t" :> "T" @@
    "u" :> "U" @@ "v" :> "V" @@ "w" :> "W" @@ "x" :> "X" @@
    "y" :> "Y" @@ "z" :> "Z"

Upper(ch) == IF ch \in DOMAIN upper THEN upper[ch] ELSE ch

RECURSIVE glyph_cols_or(_, _, _, _, _)
\* the column bytes are or-ed into the buffer
glyph_cols_or(buf, x, pg, glyph, i) ==
    IF i >= Len(glyph)
    THEN [buffer |-> buf, raised |-> FALSE]
    ELSE IF x + i < width /\ pg < pages
         THEN IF pg < -pages \/ x + i < -width
              THEN [buffer |-> buf, raised |-> TRUE]
              ELSE glyph_cols_or(
                     [buf EXCEPT ![PyIndex(pg, pages)][PyIndex(x + i, width)] =
                                     OrByte(@, glyph[i + 1], 0)],
                     x, pg, glyph, i + 1)
         ELSE glyph_cols_or(buf, x, pg, glyph, i + 1)

RECURSIVE glyph_cols(_, _, _, _, _)
\* draw_char, lines 200-202: the loop over the glyph's columns from column
\* index i on; an index below -len raises IndexError and ends the call
glyph_cols(buf, x, pg, glyph, i) ==
    IF i >= Len(glyph)
    THEN [buffer |-> buf, raised |-> FALSE]
    ELSE IF x + i < width /\ pg < pages
         THEN IF pg < -pages \/ x + i < -width
              THEN [buffer |-> buf, raised |-> TRUE]
              ELSE glyph_cols(
                     [buf EXCEPT ![PyIndex(pg, pages)][PyIndex(x + i, width)] =
                                     glyph[i + 1]],
                     x, pg, glyph, i + 1)
         ELSE glyph_cols(buf, x, pg, glyph, i + 1)

\* draw_char, lines 197-202: the buffer after draw_char(x, y, ch) on buf, and
\* whether the call raised
draw_char(buf, x, y, ch) ==
    IF ch \in DOMAIN font
    THEN glyph_cols(buf, x, y \div 8, font[ch], 0)
    ELSE [buffer |-> buf, raised |-> FALSE]

\* the characters are set 6 columns apart
char_x_tight(x, i) == x + i * 6

\* draw_string, line 207: x + i * 7
char_x(x, i) == x + i * 7

RECURSIVE draw_string_from(_, _, _, _, _)
\* draw_string, lines 206-207: the loop from the character of index i on
draw_string_from(buf, x, y, text, i) ==
    IF i >= Len(text)
    THEN [buffer |-> buf, raised |-> FALSE]
    ELSE LET r == draw_char(buf, char_x(x, i), y, Upper(text[i + 1]))
         IN  IF r.raised THEN r
             ELSE draw_string_from(r.buffer, x, y, text, i + 1)

\* draw_string, lines 204-207
draw_string(buf, x, y, text) == draw_string_from(buf, x, y, text, 0)

\* abs()
Abs(n) == IF n < 0 THEN -n ELSE n

\* the step is always +1: a line is taken to run left to right, top down
step_sign_forward(from, to) == 1

\* draw_line, lines 228-229: 1 if x0 < x1 else -1
step_sign(from, to) == IF from < to THEN 1 ELSE -1

\* the loop ends as soon as one of the two coordinates is reached
line_done_either(cx, cy, x1, y1) == cx = x1 \/ cy = y1

\* draw_line, line 234: x0 == x1 and y0 == y1
line_done(cx, cy, x1, y1) == cx = x1 /\ cy = y1

\* the prior contents of the buffer a drawing call is made on: cleared, and
\* a pattern in which every bit position is set in some columns and clear
\* in the others
PriorBuffers ==
    {ZeroBuffer(4, 128),
     [p \in 0 .. 3 |-> [c \in 0 .. 127 |-> IF c % 2 = 0 THEN 165 ELSE 90]]}

\* where the endpoints of the lines are taken from: the top left corner, the
\* boundary of pages 0 and 1, the bottom right corner
LineBoxes ==
    {[xs |-> -Margin .. LineSpan, ys |-> -Margin .. LineSpan],
     [xs |-> 60 .. 60 + LineSpan, ys |-> 6 .. 6 + LineSpan],
     [xs |-> width - 1 - LineSpan .. width - 1 + Margin,
      ys |-> height - 1 - LineSpan .. height - 1 + Margin]}

\* where the corner of a rectangle is taken from: around the four corners
RectXs == (-Margin .. Margin) \cup (width - 1 - Margin .. width - 1 + Margin)

RectYs == (-Margin .. Margin) \cup (height - 1 - Margin .. height - 1 + Margin)

DrawFrame ==
    UNCHANGED <<scanVars, bus, addr, width, height, pages, pc, via, idx, page,
                col, k, method, ret, exitLine, stateAtCall, initialized,
                lastWrite, oplog, nCmd, nBlocks, clean, sent, spiVars>>

\* set_pixel(x, y, color) called by the user of the class
SetPixel ==
    /\ dpc = "new"
    /\ \E x \in -Margin .. width - 1 + Margin,
          y \in -Margin .. height - 1 + Margin, color \in {0, 1} :
         /\ dop' = [name |-> "set_pixel", args |-> <<x, y, color>>]
         /\ buffer' = set_pixel(buffer, x, y, color)
         /\ plotted' = <<<<x, y>>>>
    /\ before' = buffer
    /\ dpc' = "done"
    /\ UNCHANGED <<x0, y0, err>>
    /\ DrawFrame

\* draw_rect(x, y, w, h, fill) called by the user of the class
DrawRect ==
    /\ dpc = "new"
    /\ \E x \in RectXs, y \in RectYs, w \in 0 .. MaxRect, h \in 0 .. MaxRect,
          fill \in BOOLEAN :
         /\ dop' = [name |-> "draw_rect",
                    args |-> <<x, y, w, h, IF fill THEN 1 ELSE 0>>]
         /\ plotted' = draw_rect(x, y, w, h, fill)
         /\ buffer' = PlotAll(buffer, plotted')
    /\ before' = buffer
    /\ dpc' = "done"
    /\ UNCHANGED <<x0, y0, err>>
    /\ DrawFrame

\* draw_line, lines 224-230: the call and the set-up of the loop
DrawLineCall ==
    /\ dpc = "new"
    /\ \E box \in LineBoxes :
         \E ax \in box.xs, ay \in box.ys, bx \in box.xs, by \in box.ys :
            /\ dop' = [name |-> "draw_line", args |-> <<ax, ay, bx, by>>]
            /\ x0' = ax
            /\ y0' = ay
            /\ err' = Abs(bx - ax) - Abs(by - ay)
    /\ before' = buffer
    /\ plotted' = <<>>
    /\ dpc' = "line"
    /\ UNCHANGED buffer
    /\ DrawFrame

\* draw_line, lines 232-242: one iteration of the while loop
DrawLineStep ==
    /\ dpc = "line"
    /\ LET x1 == dop.args[3]
           y1 == dop.args[4]
           dx == Abs(x1 - dop.args[1])
           dy == Abs(y1 - dop.args[2])
           sx == step_sign(dop.args[1], x1)
           sy == step_sign(dop.args[2], y1)
           e2 == 2 * err
           stepx == e2 > -dy
           stepy == e2 < dx
       IN  /\ buffer' = set_pixel(buffer, x0, y0, 1)
           /\ plotted' = Append(plotted, <<x0, y0>>)
           /\ IF line_done(x0, y0, x1, y1)
              THEN dpc' = "done" /\ UNCHANGED <<x0, y0, err>>
              ELSE /\ err' = err - (IF stepx THEN dy ELSE 0)
                                 + (IF stepy THEN dx ELSE 0)
                   /\ x0' = IF stepx THEN x0 + sx ELSE x0
                   /\ y0' = IF stepy THEN y0 + sy ELSE y0
                   /\ UNCHANGED dpc
    /\ UNCHANGED <<dop, before>>
    /\ DrawFrame

\* where the x of a character is taken from: around the left and the right
\* edge, and one value so far left that the list index is out of range
CharXs ==
    (-(5 + Margin) .. Margin) \cup (width - 6 - Margin .. width - 1 + Margin)
        \cup {-width - Margin}

\* where the y of a character is taken from: the first and the last row of
\* every page and of the Margin pages above and below the buffer, and one
\* value so far up that the list index is out of range
CharYs ==
    {8 * p + o : p \in -Margin .. pages - 1 + Margin, o \in {0, 7}}
        \cup {-8 * (pages + Margin)}

\* the characters drawn: those of the table, a lower-case letter and one
\* character the table does not have
Chars == DOMAIN font \cup {"a", "#"}

\* the texts drawn: a letter, a lower-case letter, a character not in the table
Texts == UNION {[1 .. n -> {"A", "b", "#"}] : n \in 0 .. MaxText}

StringXs == (-Margin .. 0) \cup (width - 8 - Margin .. width - 8)

StringYs == {-8 * Margin, 0, 8 * (pages - 1) + 7, 8 * pages}

\* draw_char(x, y, char) called by the user of the class
DrawChar ==
    /\ dpc = "new"
    /\ \E x \in CharXs, y \in CharYs, ch \in Chars :
         LET r == draw_char(buffer, x, y, ch)
         IN  /\ dop' = [name |-> "draw_char", args |-> <<x, y, ch>>]
             /\ buffer' = r.buffer
             /\ dpc' = IF r.raised THEN "raised" ELSE "done"
    /\ before' = buffer
    /\ plotted' = <<>>
    /\ UNCHANGED <<x0, y0, err>>
    /\ DrawFrame

\* draw_string(x, y, text) called by the user of the class
DrawString ==
    /\ dpc = "new"
    /\ \E x \in StringXs, y \in StringYs, text \in Texts :
         LET r == draw_string(buffer, x, y, text)
         IN  /\ dop' = [name |-> "draw_string", args |-> <<x, y, text>>]
             /\ buffer' = r.buffer
             /\ dpc' = IF r.raised THEN "raised" ELSE "done"
    /\ before' = buffer
    /\ plotted' = <<>>
    /\ UNCHANGED <<x0, y0, err>>
    /\ DrawFrame

\* SSD1306_128x32.__init__ on the adapter of bus 0, and the drawing that has
\* filled the buffer before the call looked at
DrawInit ==
    /\ devNodes = <<0>>
    /\ strayNode = FALSE
    /\ sysfs = [b \in BusIds |-> IF b = 0 THEN "dln2" ELSE "missing"]
    /\ DetectorInit
    /\ bus = 0
    /\ addr = possible_addresses[1]
    /\ width = 128
    /\ height = 32
    /\ pages = 32 \div 8
    /\ buffer \in PriorBuffers
    /\ pc = "idle"
    /\ via = "direct"
    /\ idx = 1
    /\ page = 0
    /\ col = 0
    /\ k = 0
    /\ method = "__init__"
    /\ ret = "None"
    /\ exitLine = 97
    /\ stateAtCall = "Unconnected"
    /\ initialized = FALSE
    /\ lastWrite = NoWrite
    /\ oplog = <<>>
    /\ nCmd = 0
    /\ nBlocks = 0
    /\ clean = TRUE
    /\ sent = 0
    /\ DrawIdle
    /\ SpiDevInit

DrawNext ==
    \/ SetPixel
    \/ DrawRect
    \/ DrawLineCall
    \/ DrawLineStep
    \/ DrawChar
    \/ DrawString

DrawSpec == DrawInit /\ [][DrawNext]_vars

----------------------------------------------------------------------------
(* SpiDev.  Every call into the DLN2 client (find_device, Dln2Usb(dev) and *)
(* the methods of the client) either returns or raises; which of the two   *)
(* is the environment's choice at the moment of the call.  A call of a     *)
(* SpiDev method is one step.                                              *)

\* `if self._client:` / `if not self._client:`
is_open_always == TRUE

is_open == client # NoClient

\* the calls made when call number f of cs raises: cs[1] .. cs[f]; all of cs
\* when none raises (f = 0)
Issued(cs, f) == IF f = 0 THEN cs ELSE SubSeq(cs, 1, f)

\* the call that raised
Raised(cs, f) == IF f = 0 THEN {} ELSE {cs[f]}

\* _set_frame_size: the frame size byte of the payload, int(bpw) & 0xff
frame_byte(bpw) == bpw % 256

\* the calls of a method body on the client, call number f raising and
\* ending the method: what the method did and how it ended
ClientCalls(cs, f) ==
    /\ calls' = Issued(cs, f)
    /\ failed' = Raised(cs, f)
    /\ sret' = IF f = 0 THEN "returned" ELSE "raised"
    /\ frame_size' = IF \E i \in DOMAIN Issued(cs, f) : Issued(cs, f)[i] = "SET_FRAME_SIZE"
                     THEN frame_byte(bits_per_word')
                     ELSE frame_size

SpiFrame == UNCHANGED <<scanVars, sessVars, drawVars>>

\* the calls of open() in order
open_calls ==
    <<"find_device", "Dln2Usb", "spi_enable", "spi_set_frequency", "spi_set_mode",
      "SET_FRAME_SIZE">>

\* open(bus, device): self._client is assigned once Dln2Usb(dev) has returned
SpiOpen ==
    /\ \E f \in 0 .. Len(open_calls) :
         /\ client' = IF "Dln2Usb" \in {Issued(open_calls, f)[i] : i \in DOMAIN Issued(open_calls, f)}
                         /\ "Dln2Usb" \notin Raised(open_calls, f)
                      THEN "Dln2Usb"
                      ELSE client
         /\ UNCHANGED <<max_speed_hz, mode, bits_per_word>>
         /\ ClientCalls(open_calls, f)
    /\ sop' = [name |-> "open", args |-> <<0, 0>>]
    /\ clientAtCall' = client
    /\ tx' = <<>>
    /\ openCalled' = TRUE
    /\ SpiFrame

\* close(): both calls are made, each in its own try / except
Close ==
    /\ \E fs \in SUBSET {"spi_disable", "close"} :
         IF is_open
         THEN /\ calls' = <<"spi_disable", "close">>
              /\ failed' = fs
              /\ client' = NoClient
         ELSE /\ calls' = <<>>
              /\ failed' = {}
              /\ client' = client
    /\ sret' = "returned"
    /\ clientAtCall' = client
    /\ tx' = <<>>
    /\ openCalled' = FALSE
    /\ UNCHANGED <<max_speed_hz, mode, bits_per_word, frame_size>>
    /\ SpiFrame

SpiClose ==
    /\ sop' = [name |-> "close", args |-> <<>>]
    /\ Close

\* __exit__: close() with anything it raises swallowed
SpiExit ==
    /\ sop' = [name |-> "__exit__", args |-> <<>>]
    /\ Close

\* the calls of xfer2 in order
xfer2_calls(bpw) ==
    <<"spi_set_frequency", "spi_set_mode">>
        \o (IF bpw # 8 THEN <<"SET_FRAME_SIZE">> ELSE <<>>)
        \o <<"spi_read_write">>

\* tx_bytes: one byte per value, or little-endian 16-bit words
pack(data, bpw) ==
    IF bpw <= 8
    THEN [i \in 1 .. Len(data) |-> data[i] % 256]
    ELSE [i \in 1 .. 2 * Len(data) |->
             LET w == data[(i + 1) \div 2] % 65536
             IN  IF i % 2 = 1 THEN w % 256 ELSE w \div 256]

\* the body of xfer2(data)
xfer2(data) ==
    /\ IF ~is_open
       THEN /\ sret' = "not open"
            /\ calls' = <<>>
            /\ failed' = {}
            /\ tx' = <<>>
            /\ UNCHANGED <<bits_per_word, frame_size>>
       ELSE \E f \in 0 .. Len(xfer2_calls(bits_per_word)) :
              /\ UNCHANGED bits_per_word
              /\ ClientCalls(xfer2_calls(bits_per_word), f)
              /\ tx' = IF f = 0 \/ f = Len(xfer2_calls(bits_per_word))
                       THEN pack(data, bits_per_word)
                       ELSE <<>>
    /\ clientAtCall' = client
    /\ UNCHANGED <<client, max_speed_hz, mode, openCalled>>
    /\ SpiFrame

\* the data of the transfers
XferData == {<<1>>, <<258, 3>>}

SpiXfer2 ==
    \E data \in XferData :
        /\ sop' = [name |-> "xfer2", args |-> <<data>>]
        /\ xfer2(data)

\* xfer(data): xfer2(data)
SpiXfer ==
    \E data \in XferData :
        /\ sop' = [name |-> "xfer", args |-> <<data>>]
        /\ xfer2(data)

\* writebytes(data): xfer2(data)
SpiWriteBytes ==
    \E data \in XferData :
        /\ sop' = [name |-> "writebytes", args |-> <<data>>]
        /\ xfer2(data)

\* readbytes(length): xfer2([0] * length)
SpiReadBytes ==
    \E length \in {0, 2} :
        /\ sop' = [name |-> "readbytes", args |-> <<length>>]
        /\ xfer2([i \in 1 .. length |-> 0])

\* a property setter: the value is stored, then sent if there is a client
Setter(name, v, cs) ==
    /\ sop' = [name |-> name, args |-> <<v>>]
    /\ clientAtCall' = client
    /\ tx' = <<>>
    /\ \E f \in 0 .. 1 : ClientCalls(IF is_open THEN cs ELSE <<>>, IF is_open THEN f ELSE 0)
    /\ UNCHANGED <<client, openCalled>>
    /\ SpiFrame

\* max_speed_hz = v
SetMaxSpeedHz ==
    \E v \in {500000, 1000000} :
        /\ max_speed_hz' = v
        /\ UNCHANGED <<mode, bits_per_word>>
        /\ Setter("max_speed_hz", v, <<"spi_set_frequency">>)

\* mode = v: int(v) & 0x3 is stored
SetMode ==
    \E v \in {0, 3, 6} :
        /\ mode' = v % 4
        /\ UNCHANGED <<max_speed_hz, bits_per_word>>
        /\ Setter("mode", v, <<"spi_set_mode">>)

\* the values bits_per_word is set to: a byte, a 16-bit word and a value
\* that does not fit the frame size byte
BpwValues == {8, 16, 264}

\* bits_per_word = v
SetBitsPerWord ==
    \E v \in BpwValues :
        /\ bits_per_word' = v
        /\ UNCHANGED <<max_speed_hz, mode>>
        /\ Setter("bits_per_word", v, <<"SET_FRAME_SIZE">>)

\* a SpiDev as constructed, next to an unconnected display session
SpiInit ==
    /\ devNodes = <<>>
    /\ strayNode = FALSE
    /\ sysfs = [b \in BusIds |-> "missing"]
    /\ DetectorInit
    /\ SessionInit
    /\ DrawIdle
    /\ SpiDevInit

SpiNext ==
    \/ SpiOpen
    \/ SpiClose
    \/ SpiExit
    \/ SpiXfer2
    \/ SpiXfer
    \/ SpiWriteBytes
    \/ SpiReadBytes
    \/ SetMaxSpeedHz
    \/ SetMode
    \/ SetBitsPerWord

SpiSpec == SpiInit /\ [][SpiNext]_vars

----------------------------------------------------------------------------
(* Properties of BusScanner.scan (scan_for_ssd1306) *)

\* the endpoints the enumerator lists for which the adapter filter is true
MatchingEndpoints ==
    {n \in BusIds : /\ \E p \in DOMAIN devNodes : devNodes[p] = n
                    /\ sysfs[n] = "dln2"}

AddrIdx(a) == CHOOSE j \in DOMAIN possible_addresses : possible_addresses[j] = a

\* the scan order: endpoints ascending, then addresses in the supplied order
PairBefore(b1, a1, b2, a2) ==
    b1 < b2 \/ (b1 = b2 /\ AddrIdx(a1) < AddrIdx(a2))

PairLeq(b1, a1, b2, a2) == PairBefore(b1, a1, b2, a2) \/ (b1 = b2 /\ a1 = a2)

CandidatePairs ==
    {<<b, possible_addresses[j]>> : b \in MatchingEndpoints,
                                     j \in DOMAIN possible_addresses}

WriteOk(b, a, v) ==
    \E i \in DOMAIN log : log[i] = Ev("write", b, a, CMD, v, TRUE)

BothWritesOk(b, a) ==
    WriteOk(b, a, DISPLAY_OFF) /\ WriteOk(b, a, DISPLAY_FOLLOWS_RAM)

ProbeFailed(b, a) ==
    \E i \in DOMAIN log :
        log[i].bus = b /\ log[i].addr = a /\ ~log[i].ok

ScanReturned == spc = "idle" /\ scanRet # "none"

\* C1: a scan that returns a pair returns the first pair, in the order
\* "endpoints ascending, then addresses in the supplied order", whose two
\* probe writes both succeeded: every candidate pair before it was probed
\* and failed, each event of the scan is for the same or a later pair than
\* the event before it, and no event is
\* issued for a pair after the accepted one.
C1_FirstWorkingPair ==
    /\ \A i \in DOMAIN log :
          i > 1 => PairLeq(log[i - 1].bus, log[i - 1].addr, log[i].bus, log[i].addr)
    /\ (ScanReturned /\ scanRet = "True") =>
          /\ <<found_bus, found_addr>> \in CandidatePairs
          /\ BothWritesOk(found_bus, found_addr)
          /\ \A p \in CandidatePairs :
                PairBefore(p[1], p[2], found_bus, found_addr) =>
                    ProbeFailed(p[1], p[2]) /\ ~BothWritesOk(p[1], p[2])
          /\ \A i \in DOMAIN log :
                PairLeq(log[i].bus, log[i].addr, found_bus, found_addr)
          /\ log[Len(log)] = Ev("close", found_bus, found_addr, 0, 0, TRUE)
          /\ log[Len(log) - 1] =
                Ev("write", found_bus, found_addr, CMD, DISPLAY_FOLLOWS_RAM, TRUE)

\* two matching endpoints, only the second responds: it is returned after
\* both addresses of the first were probed
C1_Witness ==
    /\ ScanReturned /\ scanRet = "True"
    /\ Cardinality(MatchingEndpoints) = 2
    /\ \A b \in MatchingEndpoints : b <= found_bus
    /\ \E b \in MatchingEndpoints : b < found_bus
    /\ \A b \in MatchingEndpoints : b < found_bus =>
          \A j \in DOMAIN possible_addresses :
              ProbeFailed(b, possible_addresses[j])

\* the candidate pair after <<b, a>> in scan order, <<>> if it is the last
SuccPair(b, a) ==
    LET later == {p \in CandidatePairs : PairBefore(b, a, p[1], p[2])}
    IN  IF later = {} THEN <<>>
        ELSE CHOOSE p \in later :
                 \A q \in later : PairLeq(p[1], p[2], q[1], q[2])

\* the first event after position i that is not of the pair of log[i]
NextOther(i) ==
    LET js == {j \in DOMAIN log :
                  j > i /\ <<log[j].bus, log[j].addr>> # <<log[i].bus, log[i].addr>>}
    IN  IF js = {} THEN 0 ELSE CHOOSE j \in js : \A m \in js : j <= m

\* C2: a transport failure while probing one pair never leaves scan as an
\* exception; after the failure nothing but the close of that handle is
\* done for the pair, scanning goes on with the next candidate pair, and
\* when there is none the scan returns its aggregate not-found.
C2_FailureSwallowed ==
    /\ scanRet # "raised"
    /\ \A i \in DOMAIN log :
          ~log[i].ok =>
              LET b == log[i].bus
                  a == log[i].addr
                  nxt == SuccPair(b, a)
                  j == NextOther(i)
              IN  /\ \A m \in DOMAIN log :
                        (m > i /\ log[m].bus = b /\ log[m].addr = a) =>
                            log[m].op = "close"
                  /\ IF nxt = <<>>
                     THEN j = 0 /\ spc = "idle" /\ scanRet = "False"
                     ELSE IF j = 0
                          THEN /\ spc = "probing"
                               /\ <<dln2_buses[bi], possible_addresses[ai]>> = nxt
                          ELSE <<log[j].bus, log[j].addr>> = nxt

\* a failed open, a failed first write and a failed second write were all
\* passed over and a later pair was accepted
C2_Witness ==
    /\ ScanReturned /\ scanRet = "True"
    /\ \E i \in DOMAIN log : log[i].op = "open" /\ ~log[i].ok
    /\ \E i \in DOMAIN log :
          log[i].op = "write" /\ log[i].val = DISPLAY_OFF /\ ~log[i].ok
    /\ \E i \in DOMAIN log :
          log[i].op = "write" /\ log[i].val = DISPLAY_FOLLOWS_RAM /\ ~log[i].ok

\* C3: a scan that finds no endpoint passing the adapter filter returns
\* not-found and has issued no transport call at all.
C3_NoEndpointNoWrite ==
    (ScanReturned /\ MatchingEndpoints = {}) =>
        scanRet = "False" /\ log = <<>>

\* endpoints exist, none passes the filter, the scan has returned
C3_Witness ==
    /\ ScanReturned
    /\ MatchingEndpoints = {}
    /\ devNodes # <<>>
    /\ strayNode
    /\ \E b \in BusIds : sysfs[b] = "other"
    /\ scanRet = "False"

\* C4: after every scan attempt get_connection_info() is None if the
\* attempt returned not-found, and is the accepted pair if it returned a
\* pair.
C4_ResultMatchesAttempt ==
    ScanReturned =>
        /\ scanRet = "False" =>
              get_connection_info(found_bus, found_addr) = <<>>
        /\ scanRet = "True" =>
              /\ get_connection_info(found_bus, found_addr) =
                    <<found_bus, found_addr>>
              /\ BothWritesOk(found_bus, found_addr)

\* C5: every write of a scan is a command-mode write of 0xAE or 0xA4; 0xAE
\* is the first write on a freshly opened handle and 0xA4 directly follows
\* a successful 0xAE to the same pair.
C5_ProbeOpcodes ==
    \A i \in DOMAIN log :
        log[i].op = "write" =>
            /\ log[i].ctrl = CMD
            /\ log[i].val \in {DISPLAY_OFF, DISPLAY_FOLLOWS_RAM}
            /\ i > 1
            /\ log[i].val = DISPLAY_OFF =>
                  log[i - 1] = Ev("open", log[i].bus, log[i].addr, 0, 0, TRUE)
            /\ log[i].val = DISPLAY_FOLLOWS_RAM =>
                  log[i - 1] =
                      Ev("write", log[i].bus, log[i].addr, CMD, DISPLAY_OFF, TRUE)

\* one probe stopped after a failed 0xAE, another sent both opcodes
C5_Witness ==
    /\ \E i \in DOMAIN log :
          /\ log[i].op = "write" /\ log[i].val = DISPLAY_OFF /\ ~log[i].ok
          /\ i < Len(log)
          /\ log[i + 1].op = "close"
    /\ \E i \in DOMAIN log :
          log[i].op = "write" /\ log[i].val = DISPLAY_FOLLOWS_RAM

\* C6: every transport call of a scan goes to an endpoint for which the
\* adapter filter is true, and the endpoints are visited in strictly
\* ascending order of their number: no call goes to a smaller endpoint than
\* the call before it, so an endpoint once left is never visited again.
C6_FilteredAscending ==
    /\ \A i \in DOMAIN log : log[i].bus \in MatchingEndpoints
    /\ \A i \in DOMAIN log : i > 1 => log[i - 1].bus <= log[i].bus

\* the enumerator listed the greater endpoint first, a non-matching
\* endpoint is listed too, and both matching endpoints were probed
C6_Witness ==
    /\ \E p, q \in DOMAIN devNodes :
          /\ p < q /\ devNodes[p] > devNodes[q]
          /\ devNodes[p] \in MatchingEndpoints
          /\ devNodes[q] \in MatchingEndpoints
          /\ \E i \in DOMAIN log : log[i].bus = devNodes[p]
          /\ \E i \in DOMAIN log : log[i].bus = devNodes[q]

----------------------------------------------------------------------------
(* Properties of the flush (update_display) *)

InFlush == method \in {"update_display", "test_display"}

\* the flush ran to the end of update_display
FlushCompleted ==
    /\ InFlush
    /\ pc = "idle"
    /\ (ret = "None" /\ exitLine = 290) \/ (ret = "True" /\ exitLine = 263)

\* the flush was ended by a write that raised
FlushAborted ==
    InFlush /\ pc = "idle" /\ (ret = "raised" \/ exitLine = 267)

ChunksPerPage == (width + CHUNK - 1) \div CHUNK

\* the n-th write of a flush as section 4.4 lists them: 0x21, 0, width-1,
\* 0x22, 0, pageCount-1 in command mode, then one data block per chunk,
\* pages ascending, columns ascending
ExpectedFlushWrite(n) ==
    IF n <= 6
    THEN ByteWrite(addr, CMD, <<33, 0, width - 1, 34, 0, pages - 1>>[n], TRUE, 0, 0)
    ELSE LET c == n - 7
             pg == c \div ChunksPerPage
             cl == (c % ChunksPerPage) * CHUNK
             len == IF width - cl < CHUNK THEN width - cl ELSE CHUNK
         IN  BlockWrite(addr, DATA, [j \in 1 .. len |-> buffer[pg][cl + j - 1]],
                        TRUE, pg, cl)

\* C7: as long as no write of a flush has failed, its n-th write is the
\* n-th write of the prescribed sequence (six command-mode window writes,
\* then one 0x40 block per chunk in page and column order), and a flush that
\* completes without a failed write has issued exactly that sequence.
C7_FlushSequence ==
    (InFlush /\ clean) =>
        /\ nCmd + nBlocks > 0 => lastWrite = ExpectedFlushWrite(nCmd + nBlocks)
        /\ nCmd + nBlocks = 0 => lastWrite = NoWrite
        /\ FlushCompleted => nCmd = 6 /\ nBlocks = pages * ChunksPerPage

\* a flush of the frame drawn by test_display completed with no failed write
C7_Witness ==
    /\ FlushCompleted /\ clean
    /\ method = "test_display"
    /\ lastWrite.kind = "block" /\ lastWrite.pg = 3 /\ lastWrite.cl = 112
    /\ lastWrite.data[16] = 255

\* the position the flush is at after the buffer cell (pg, cl) went out as
\* the last byte of its chunk
AfterChunkOf(pg, cl) ==
    IF cl + 1 < width
    THEN pc = "data" /\ page = pg /\ col = cl + 1
    ELSE IF pg + 1 < pages
         THEN pc = "data" /\ page = pg + 1 /\ col = 0
         ELSE FlushCompleted

\* C8: a rejected block write does not end the flush: the flush goes on
\* with single-byte 0x40 writes of that chunk's bytes in column order, each
\* carrying the buffer byte of its column, then with the block write of the
\* next chunk; only a failed command or single-byte write ends a flush
\* early, and a flush that reaches its end has attempted every chunk.
C8_BlockFallback ==
    InFlush =>
        /\ (lastWrite.kind = "block" /\ ~lastWrite.ok) =>
              /\ pc = "fallback" /\ k = 0
              /\ page = lastWrite.pg /\ col = lastWrite.cl
        /\ pc = "fallback" =>
              /\ ~clean
              /\ IF k = 0
                 THEN lastWrite =
                        BlockWrite(addr, DATA, Chunk(buffer, page, col, width),
                                   FALSE, page, col)
                 ELSE lastWrite =
                        ByteWrite(addr, DATA, buffer[page][col + k - 1], TRUE,
                                  page, col + k - 1)
        /\ (lastWrite.kind = "byte" /\ lastWrite.ctrl = DATA) =>
              /\ lastWrite.val = buffer[lastWrite.pg][lastWrite.cl]
              /\ lastWrite.ok =>
                    IF (lastWrite.cl + 1) % CHUNK # 0 /\ lastWrite.cl + 1 < width
                    THEN /\ pc = "fallback"
                         /\ page = lastWrite.pg
                         /\ col + k = lastWrite.cl + 1
                    ELSE AfterChunkOf(lastWrite.pg, lastWrite.cl)
        /\ FlushAborted => lastWrite.kind = "byte" /\ ~lastWrite.ok
        /\ FlushCompleted => nBlocks = pages * ChunksPerPage

\* a flush completed although a block write was rejected: after the
\* fallback bytes of that chunk a later chunk went out as a block again
C8_Witness ==
    /\ FlushCompleted
    /\ ~clean
    /\ method = "test_display"
    /\ lastWrite.kind = "block" /\ lastWrite.ok

C10_FlushNeedsInitialized ==
    (method = "update_display" /\ stateAtCall # "Initialized") =>
        /\ lastWrite = NoWrite
        /\ pc = "idle" => exitLine = 272

----------------------------------------------------------------------------
(* Properties of detect_display_size and init_display *)

\* the sixteen groups of the power-up table for 128x32, the contrast left open
PowerUpTable(contrast) ==
    <<<<174>>, <<213, 128>>, <<168, 31>>, <<211, 0>>, <<64>>, <<141, 20>>,
      <<32, 0>>, <<161>>, <<200>>, <<218, 2>>, <<129, contrast>>, <<217, 241>>,
      <<219, 64>>, <<164>>, <<166>>, <<175>>>>

RECURSIVE GroupsLog(_)
\* what a run over the groups gs puts on the bus: the bytes of each group as
\* successful command-mode writes, then one settle delay
GroupsLog(gs) ==
    IF gs = <<>>
    THEN <<>>
    ELSE [j \in 1 .. Len(Head(gs)) |->
              ByteWrite(addr, CMD, Head(gs)[j], TRUE, 0, 0)]
         \o <<Sleep>> \o GroupsLog(Tail(gs))

InitSucceeded ==
    method = "init_display" /\ pc = "idle" /\ ret = "True"

\* C11: a successful init_display has issued exactly the sixteen groups of
\* the power-up table (0xAE; 0xD5,0x80; 0xA8,0x1F; ... 0xAF, contrast 0xCF
\* or 0xFF) as command-mode writes in that order, with one settle delay
\* after each group and none inside a group.
C11_PowerUpSequence ==
    InitSucceeded =>
        \E contrast \in {207, 255} : oplog = GroupsLog(PowerUpTable(contrast))

\* the writes of an operation log without its delays
WritesOf(lg) == SelectSeq(lg, LAMBDA e : e.kind = "byte")

\* the run of init_display has ended in its except clause
InitFailedReturn ==
    method = "init_display" /\ pc = "idle" /\ ret = "False" /\ exitLine = 234

\* C12 as stated: a write failure during init_display ends the call at that
\* write with the failure result and leaves the session in Connected.
C12_FailedInitLeavesConnected ==
    InitFailedReturn =>
        /\ ~oplog[Len(oplog)].ok
        /\ SessionState = "Connected"

\* C12, amended: a write failure during init_display ends the call at that
\* write (the failed write is the last thing on the bus, every write before
\* it succeeded, and the writes are the first bytes of commands in order)
\* with the failure result; the session keeps its transport, geometry and
\* buffer, so it is in SizeKnown if a buffer was allocated and in Connected
\* otherwise; an init_display that follows is accepted and starts again at
\* the first opcode, commands[1].
C12_FailedInitKeepsSession ==
    /\ [](method = "init_display" =>
            /\ \A i \in 1 .. Len(oplog) :
                  ~oplog[i].ok => i = Len(oplog) /\ InitFailedReturn
            /\ LET ws == WritesOf(oplog)
               IN  \A i \in 1 .. Len(ws) : ws[i].val = commands[i]
            /\ InitFailedReturn =>
                  /\ oplog # <<>> /\ ~oplog[Len(oplog)].ok
                  /\ bus # None
                  /\ SessionState = (IF buffer = NoBuffer THEN "Connected"
                                                          ELSE "SizeKnown"))
    /\ [][pc = "init" =>
            UNCHANGED <<bus, addr, width, height, pages, buffer>>]_vars
    /\ [][(InitFailedReturn /\ method' = "init_display") =>
            (pc' = "init" /\ idx' = 1 /\ oplog' = <<>>
               /\ UNCHANGED <<bus, addr, width, height, pages, buffer>>)]_vars

\* init_display failed on the argument of a two-byte command, on a session
\* whose size was detected before
C12_Witness ==
    /\ InitFailedReturn
    /\ stateAtCall = "SizeKnown"
    /\ buffer = ZeroBuffer(4, 128)
    /\ Len(oplog) > 3
    /\ oplog[Len(oplog)].val = 20 /\ oplog[Len(oplog) - 1].val = 141

WindowWriteFailed ==
    InFlush /\ lastWrite.kind = "byte" /\ lastWrite.ctrl = CMD /\ ~lastWrite.ok

\* C14: when one of the six addressing-window writes of a flush fails, the
\* flush has ended with that write: the failure reaches the caller (raised
\* out of update_display at the line of that write, or the False of
\* test_display), the write was made once, and no data write, block or
\* single byte, was made in that flush.
C14_WindowFailureSurfaced ==
    /\ WindowWriteFailed =>
          /\ pc = "idle"
          /\ FlushAborted
          /\ nCmd \in 1 .. 6
          /\ lastWrite.val = WindowSeq(pages)[nCmd]
          /\ nBlocks = 0
          /\ via = "direct" => ret = "raised" /\ exitLine = 274 + nCmd
          /\ via = "test_display" => ret = "False"
    /\ (InFlush /\ (nBlocks > 0 \/ lastWrite.ctrl = DATA)) => nCmd = 6

\* update_display raised at the fourth window write (0x22)
C14_Witness ==
    /\ WindowWriteFailed
    /\ method = "update_display"
    /\ nCmd = 4 /\ lastWrite.val = 34
    /\ ret = "raised"

\* C15: no step of a flush changes the buffer, whatever the buffer holds and
\* whichever writes fail: the call of update_display, its window writes, its
\* block writes, its fallback byte writes and the step that ends or aborts
\* it all leave the buffer as it was; the buffer changes only where it is
\* allocated (detect_display_size) or drawn on (test_display's drawing).
C15_FlushKeepsBuffer ==
    [][/\ (pc \in {"window", "data", "fallback"}) => buffer' = buffer
       /\ (pc = "idle" /\ method' = "update_display") => buffer' = buffer
       /\ buffer' # buffer =>
             \/ pc = "detect"
             \/ pc = "idle" /\ method' = "test_display"]_vars

\* a flush of the drawn frame went through the fallback and completed, and
\* the buffer still holds the frame
C15_Witness ==
    /\ FlushCompleted
    /\ ~clean
    /\ nBlocks = pages * ChunksPerPage
    /\ buffer = FrameBuffer(pages, width)
    /\ lastWrite.kind = "byte" /\ lastWrite.pg = 3 /\ lastWrite.cl = 127

----------------------------------------------------------------------------
(* Properties of the drawing primitives *)

InBounds(x, y) == 0 <= x /\ x < width /\ 0 <= y /\ y < height

\* the call was made on a cleared buffer
OnCleared == before = [p \in 0 .. pages - 1 |-> [c \in 0 .. width - 1 |-> 0]]

\* the buffer in which exactly the pixels of S are set: the pixel (x, y) is
\* bit y % 8 of the byte at page y / 8, column x
BufferOf(S) ==
    LET cols == {q[1] : q \in S}
        byte(p, c, b) == IF <<c, 8 * p + b>> \in S THEN 2 ^ b ELSE 0
    IN  [p \in 0 .. pages - 1 |->
            [c \in 0 .. width - 1 |->
                IF c \notin cols
                THEN 0
                ELSE byte(p, c, 0) + byte(p, c, 1) + byte(p, c, 2) + byte(p, c, 3)
                     + byte(p, c, 4) + byte(p, c, 5) + byte(p, c, 6) + byte(p, c, 7)]]

\* set_pixel(x, y, 1) was called with (x, y) inside the buffer
SetPixelOnInBounds ==
    /\ dop.name = "set_pixel"
    /\ dop.args[3] = 1
    /\ InBounds(dop.args[1], dop.args[2])

\* C16 as stated: whatever the buffer held, set_pixel(x, y, 1) followed by
\* set_pixel(x, y, 0) leaves the byte buffer[y/8][x] with the value it had
\* before the two calls.
C16_RoundTripRestoresByte ==
    SetPixelOnInBounds =>
        LET x == dop.args[1]
            y == dop.args[2]
            off == set_pixel(buffer, x, y, 0)
        IN  off[y \div 8][x] = before[y \div 8][x]

\* C16, amended: set_pixel(x, y, 1) sets bit y % 8 of buffer[y/8][x] and
\* set_pixel(x, y, 0) after it clears that bit; neither call changes any of
\* the other 7 bits of the byte (nor any other byte).  The byte is back at
\* its original value exactly when the pixel was off before the two calls;
\* when it was on, the byte ends as the original with that bit cleared.
C16_RoundTripClearsBit ==
    SetPixelOnInBounds =>
        LET x == dop.args[1]
            y == dop.args[2]
            pg == y \div 8
            bit == y % 8
            off == set_pixel(buffer, x, y, 0)
        IN  /\ Bit(buffer[pg][x], bit) = 1
            /\ Bit(off[pg][x], bit) = 0
            /\ \A b \in (0 .. 7) \ {bit} :
                  /\ Bit(buffer[pg][x], b) = Bit(before[pg][x], b)
                  /\ Bit(off[pg][x], b) = Bit(before[pg][x], b)
            /\ [buffer EXCEPT ![pg][x] = before[pg][x]] = before
            /\ [off EXCEPT ![pg][x] = before[pg][x]] = before
            /\ off[pg][x] = IF Bit(before[pg][x], bit) = 0
                            THEN before[pg][x]
                            ELSE before[pg][x] - 2 ^ bit

\* set_pixel(2, 9, 1) on a buffer whose byte [1][2] was 0xA5: bit 1 was off
\* among bits that were on
C16_Witness ==
    /\ dpc = "done"
    /\ dop = [name |-> "set_pixel", args |-> <<2, 9, 1>>]
    /\ before[1][2] = 165
    /\ buffer[1][2] = 167

\* C17: set_pixel with (x, y) outside [0, width) x [0, height), negative
\* coordinates included, and either color returns normally and leaves every
\* byte of the buffer as it was.
C17_OutOfBoundsNoOp ==
    (dop.name = "set_pixel" /\ ~InBounds(dop.args[1], dop.args[2])) =>
        /\ dpc = "done"
        /\ buffer = before

\* set_pixel(-1, -1, 1) was called on a buffer that is not empty
C17_Witness ==
    /\ dpc = "done"
    /\ dop = [name |-> "set_pixel", args |-> <<-1, -1, 1>>]
    /\ before[3][127] = 90

\* draw_line was called on a cleared buffer with both endpoints inside
LineInBounds ==
    /\ dop.name = "draw_line"
    /\ OnCleared
    /\ InBounds(dop.args[1], dop.args[2])
    /\ InBounds(dop.args[3], dop.args[4])

Max(a, b) == IF a > b THEN a ELSE b

Min(a, b) == IF a < b THEN a ELSE b

\* C18: draw_line between two in-bounds points on a cleared buffer plots the
\* start point first and the end point last, each of them once; every pixel
\* plotted after the first is 8-adjacent to the one plotted before it; every
\* plotted pixel lies in the bounding box of the endpoints; the pixels set
\* in the buffer are exactly the plotted ones, and they are at least
\* max(|dx|, |dy|) + 1.
C18_LineConnected ==
    LineInBounds =>
        LET ax == dop.args[1]
            ay == dop.args[2]
            bx == dop.args[3]
            by == dop.args[4]
            n == Len(plotted)
            S == {plotted[i] : i \in 1 .. n}
        IN  /\ \A i \in 1 .. n :
                  /\ Min(ax, bx) <= plotted[i][1] /\ plotted[i][1] <= Max(ax, bx)
                  /\ Min(ay, by) <= plotted[i][2] /\ plotted[i][2] <= Max(ay, by)
            /\ \A i \in 2 .. n :
                  Max(Abs(plotted[i][1] - plotted[i - 1][1]),
                      Abs(plotted[i][2] - plotted[i - 1][2])) = 1
            /\ buffer = BufferOf(S)
            /\ n > 0 => plotted[1] = <<ax, ay>>
            /\ Cardinality({i \in 1 .. n : plotted[i] = <<ax, ay>>}) <= 1
            /\ Cardinality({i \in 1 .. n : plotted[i] = <<bx, by>>}) <= 1
            /\ dpc = "done" =>
                  /\ plotted[n] = <<bx, by>>
                  /\ <<ax, ay>> \in S
                  /\ Cardinality(S) >= Max(Abs(bx - ax), Abs(by - ay)) + 1

\* the line from (60, 6) to (62, 9), across the boundary of pages 0 and 1,
\* is drawn
C18_Witness ==
    /\ LineInBounds
    /\ dpc = "done"
    /\ dop.args = <<60, 6, 62, 9>>
    /\ Len(plotted) = 4
    /\ buffer[0][60] = 64 /\ buffer[1][62] = 2

\* C19: draw_line(x0, y0, x0, y0) with the point inside, on a cleared
\* buffer, calls set_pixel once, with (x0, y0), and ends; the buffer then
\* has the pixel (x0, y0) set and no other.
C19_PointLine ==
    (LineInBounds /\ dop.args[1] = dop.args[3] /\ dop.args[2] = dop.args[4]) =>
        LET ax == dop.args[1]
            ay == dop.args[2]
        IN  IF dpc = "done"
            THEN /\ plotted = <<<<ax, ay>>>>
                 /\ buffer = [before EXCEPT ![ay \div 8][ax] = 2 ^ (ay % 8)]
            ELSE plotted = <<>> /\ buffer = before

\* the one-point line at the bottom right corner is drawn
C19_Witness ==
    /\ LineInBounds
    /\ dpc = "done"
    /\ dop.args = <<127, 31, 127, 31>>
    /\ buffer[3][127] = 128

\* C20: draw_rect(x, y, w, h, fill) on a cleared buffer, for w, h >= 0 and
\* any corner: with fill the pixels set are exactly the in-bounds pixels of
\* [x, x+w) x [y, y+h); without, exactly the in-bounds pixels of the
\* rectangle's four border lines; so no pixel outside the rectangle is set.
C20_RectExact ==
    (dop.name = "draw_rect" /\ OnCleared) =>
        LET x == dop.args[1]
            y == dop.args[2]
            w == dop.args[3]
            h == dop.args[4]
            rect == {q \in (x .. x + w - 1) \X (y .. y + h - 1) :
                        InBounds(q[1], q[2])}
            border == {q \in rect : \/ q[1] \in {x, x + w - 1}
                                    \/ q[2] \in {y, y + h - 1}}
        IN  buffer = BufferOf(IF dop.args[5] = 1 THEN rect ELSE border)

----------------------------------------------------------------------------
(* Properties of the session as a whole *)

\* a flush of the frame of test_display in which no write has failed
FrameFlush == method = "test_display" /\ InFlush /\ clean

\* C23 as stated: the flush of the cleared buffer with the frame
\* draw_rect(0, 0, 128, 32) on it makes 4 block writes of 16 bytes per page,
\* 32 in all, after the six window writes, and the bytes of pages 0 and 3
\* are non-zero at columns 0 and 127 and zero elsewhere.
C23_FrameFlushFourPerPage ==
    FrameFlush =>
        /\ lastWrite.kind = "block" =>
              /\ nCmd = 6
              /\ Len(lastWrite.data) = 16
              /\ nBlocks = 4 * lastWrite.pg + lastWrite.cl \div CHUNK + 1
              /\ lastWrite.pg \in {0, 3} =>
                    \A j \in 1 .. 16 :
                        (lastWrite.data[j] # 0) <=> (lastWrite.cl + j - 1 \in {0, 127})
        /\ FlushCompleted => nBlocks = 32

\* C23, amended: the flush of the cleared buffer with the frame
\* draw_rect(0, 0, 128, 32) on it makes 8 block writes of 16 bytes per page,
\* 32 in all, every one after the six window writes; the bytes of pages 1
\* and 2 are 0xFF at columns 0 and 127 and zero elsewhere, those of page 0
\* are 0xFF at columns 0 and 127 and 0x01 elsewhere (the top line), those
\* of page 3 0xFF and 0x80 (the bottom line).
C23_FrameFlushEightPerPage ==
    FrameFlush =>
        /\ lastWrite.kind = "block" =>
              /\ nCmd = 6
              /\ Len(lastWrite.data) = 16
              /\ nBlocks = 8 * lastWrite.pg + lastWrite.cl \div 16 + 1
              /\ \A j \in 1 .. 16 :
                    lastWrite.data[j] =
                        IF lastWrite.cl + j - 1 \in {0, 127} THEN 255
                        ELSE IF lastWrite.pg = 0 THEN 1
                        ELSE IF lastWrite.pg = 3 THEN 128
                        ELSE 0
        /\ FlushCompleted =>
              /\ nBlocks = 32
              /\ lastWrite.kind = "block" /\ lastWrite.pg = 3 /\ lastWrite.cl = 112
              /\ buffer = PlotAll(ZeroBuffer(4, 128),
                                  draw_rect(0, 0, 128, 32, FALSE))

\* the flush of the frame has completed without a failed write
C23_Witness ==
    /\ FrameFlush
    /\ FlushCompleted
    /\ nBlocks = 32
    /\ sent = 512

\* C24: whenever the session has a buffer, the buffer has pages rows of
\* width bytes, pages is height / 8 and height is a multiple of 8; and once
\* the buffer exists no step of any operation (init_display, the drawing of
\* test_display, update_display, a detection run again, a failed call)
\* changes width, height or pages.
C24_GeometryFixed ==
    /\ [](buffer # NoBuffer =>
            /\ DOMAIN buffer = 0 .. pages - 1
            /\ \A p \in DOMAIN buffer : DOMAIN buffer[p] = 0 .. width - 1
            /\ height % 8 = 0
            /\ pages = height \div 8)
    /\ [][buffer # NoBuffer => UNCHANGED <<width, height, pages>>]_vars

\* a second detection has returned on a session whose init_display failed
\* after the first
C24_Witness ==
    /\ method = "detect_display_size"
    /\ stateAtCall = "SizeKnown"
    /\ pc = "idle"
    /\ buffer # NoBuffer
    /\ ~oplog[Len(oplog)].ok

\* C26: auto_connect that fails on an unconnected session (no display found
\* by the scan, or the open of the found pair raised) returns False and
\* leaves the session without a transport; detect_display_size,
\* init_display, update_display and test_display called on a session
\* without a transport return at once (False, or None for update_display)
\* and make no transport write.
C26_FailedConnectStaysUnconnected ==
    /\ (method = "auto_connect" /\ stateAtCall = "Unconnected" /\ pc = "idle"
          /\ ret # "True") =>
          /\ ret = "False"
          /\ bus = None
          /\ SessionState = "Unconnected"
    /\ (method \in {"detect_display_size", "init_display", "update_display",
                    "test_display"} /\ stateAtCall = "Unconnected") =>
          /\ pc = "idle"
          /\ bus = None
          /\ lastWrite = NoWrite /\ oplog = <<>>
          /\ nCmd = 0 /\ nBlocks = 0 /\ sent = 0
          /\ ret = (IF method = "update_display" THEN "None" ELSE "False")

\* init_display was called on a session that never got a transport
C26_Witness ==
    /\ method = "init_display"
    /\ stateAtCall = "Unconnected"
    /\ bus = None
    /\ ret = "False" /\ exitLine = 194

\* the last write was a data write the transport accepted
DataAccepted ==
    InFlush /\ lastWrite.ctrl = DATA /\ lastWrite.kind # "none" /\ lastWrite.ok

\* C28: in a flush, whichever block writes are rejected, every data write
\* the transport accepts carries the buffer bytes that follow, page by page
\* and column by column, the bytes accepted before it: the accepted bytes
\* are the buffer read in that order, none skipped, repeated or out of
\* place, and a flush that reaches its end has delivered all pages * width
\* bytes.
C28_AcceptedBytesAreBuffer ==
    /\ DataAccepted =>
          LET n == IF lastWrite.kind = "block" THEN Len(lastWrite.data) ELSE 1
              byte(j) == IF lastWrite.kind = "block" THEN lastWrite.data[j]
                                                     ELSE lastWrite.val
              first == sent - n
          IN  /\ n >= 1
              /\ first = lastWrite.pg * width + lastWrite.cl
              /\ \A j \in 1 .. n :
                    byte(j) = buffer[(first + j - 1) \div width][(first + j - 1) % width]
    /\ (InFlush /\ lastWrite.ctrl = DATA /\ ~lastWrite.ok /\ pc # "idle") =>
          sent = lastWrite.pg * width + lastWrite.cl
    /\ FlushCompleted => sent = pages * width

\* a flush has completed although block writes were rejected, the last
\* byte having gone out as a single byte
C28_Witness ==
    /\ FlushCompleted
    /\ ~clean
    /\ sent = 512
    /\ lastWrite.kind = "byte" /\ lastWrite.ok /\ lastWrite.cl = 127

----------------------------------------------------------------------------
(* Properties of the probe's transport handle *)

\* the i-th transport event of the scan leaves a handle open
HandleOpenAfter(i) ==
    \/ log[i].op = "open" /\ log[i].ok
    \/ log[i].op = "write"

\* C30: in the transport events of a scan every handle that was opened is
\* closed by the probe that opened it, after both writes or right after the
\* write that failed; a probe whose open failed has no handle and makes no
\* write; an open is only made when the handle before it is closed, so two
\* handles are never open together; and every probe ends, and so the scan
\* returns, with no handle open.
C30_ProbeHandleClosed ==
    /\ \A i \in 1 .. Len(log) :
          /\ log[i].op = "open" => (i > 1 => ~HandleOpenAfter(i - 1))
          /\ log[i].op \in {"write", "close"} =>
                /\ i > 1
                /\ HandleOpenAfter(i - 1)
                /\ log[i].bus = log[i - 1].bus /\ log[i].addr = log[i - 1].addr
          /\ (log[i].op = "write" /\ i > 1) =>
                log[i - 1].ok /\ log[i - 1].val # DISPLAY_FOLLOWS_RAM
          /\ (log[i].op = "close" /\ i > 1) =>
                ~log[i - 1].ok \/ log[i - 1].val = DISPLAY_FOLLOWS_RAM
    /\ log # <<>> => ~HandleOpenAfter(Len(log))
    /\ scanRet # "raised"

\* a scan has returned after a probe whose second write failed and a probe
\* whose open failed
C30_Witness ==
    /\ ScanReturned
    /\ \E i \in 2 .. Len(log) - 1 :
          /\ log[i].op = "close"
          /\ log[i - 1].op = "write" /\ ~log[i - 1].ok
          /\ log[i - 1].val = DISPLAY_FOLLOWS_RAM
          /\ log[i + 1].op = "open" /\ ~log[i + 1].ok

----------------------------------------------------------------------------
(* Properties of draw_line's loop, draw_char and draw_string *)

\* C27: for any endpoints, inside the buffer or not, the loop of draw_line
\* comes one step closer to (x1, y1) with every iteration: after n
\* iterations the larger of |x1 - x0| and |y1 - y0| is max(|dx|, |dy|) - n,
\* so the loop ends, at (x1, y1), after exactly max(|dx|, |dy|) steps (one
\* set_pixel call more than steps); all the while x0 lies between the
\* original x0 and x1 and y0 between the original y0 and y1.
C27_LineTerminates ==
    dop.name = "draw_line" =>
        LET ax == dop.args[1]
            ay == dop.args[2]
            bx == dop.args[3]
            by == dop.args[4]
            far == Max(Abs(bx - ax), Abs(by - ay))
            left == Max(Abs(bx - x0), Abs(by - y0))
        IN  /\ Min(ax, bx) <= x0 /\ x0 <= Max(ax, bx)
            /\ Min(ay, by) <= y0 /\ y0 <= Max(ay, by)
            /\ dpc = "line" => Len(plotted) + left = far
            /\ dpc = "done" =>
                  /\ x0 = bx /\ y0 = by
                  /\ Len(plotted) = far + 1
            /\ dpc \in {"line", "done"}

\* a line that starts outside the buffer and runs up and to the left has
\* been drawn
C27_Witness ==
    /\ dpc = "done"
    /\ dop.name = "draw_line"
    /\ dop.args = <<128, 32, 125, 30>>
    /\ Len(plotted) = 4

\* draw_char was called with a character of the table
CharOfTable == dop.name = "draw_char" /\ dop.args[3] \in DOMAIN font

\* C21: draw_char with a character of the table leaves, at each column
\* x .. x+5 that lies in the buffer, on page y / 8 if that is a page of the
\* buffer, the glyph's byte for that column, whatever the byte was before;
\* draw_char with any other character returns normally and leaves the whole
\* buffer as it was.
C21_CharOverwrites ==
    dop.name = "draw_char" =>
        LET x == dop.args[1]
            pg == dop.args[2] \div 8
            ch == dop.args[3]
        IN  IF ch \in DOMAIN font
            THEN (dpc = "done" /\ 0 <= pg /\ pg < pages) =>
                    \A i \in 0 .. 5 :
                        (0 <= x + i /\ x + i < width) =>
                            buffer[pg][x + i] = font[ch][i + 1]
            ELSE dpc = "done" /\ buffer = before

\* 'A' was drawn at (0, 8) over bytes that were not zero
C21_Witness ==
    /\ dpc = "done"
    /\ dop = [name |-> "draw_char", args |-> <<0, 8, "A">>]
    /\ before[1][1] = 90 /\ before[1][5] = 90
    /\ buffer[1][1] = 124 /\ buffer[1][5] = 124

\* C29: for any x and y, draw_char changes no byte of the buffer other than
\* those of page y / 8 at the columns x .. x+5 that lie in the buffer, and
\* changes nothing when y / 8 is not a page of the buffer.
C29_CharConfined ==
    dop.name = "draw_char" =>
        LET x == dop.args[1]
            pg == dop.args[2] \div 8
        IN  /\ \A p \in 0 .. pages - 1, c \in 0 .. width - 1 :
                  buffer[p][c] # before[p][c] => (p = pg /\ x <= c /\ c <= x + 5)
            /\ (pg < 0 \/ pg >= pages) => buffer = before

\* the buffer that has, on page pg, the glyphs of the characters of text at
\* x, x + 7, x + 14, ..., each in the 6 columns from its position on, and
\* the bytes of buf everywhere else
WithGlyphs(buf, x, pg, text) ==
    [buf EXCEPT ![pg] =
        [c \in 0 .. width - 1 |->
            LET at == {i \in 1 .. Len(text) :
                          /\ Upper(text[i]) \in DOMAIN font
                          /\ c - (x + 7 * (i - 1)) \in 0 .. 5}
            IN  IF at = {}
                THEN buf[pg][c]
                ELSE LET i == CHOOSE j \in at : TRUE
                     IN  font[Upper(text[i])][c - (x + 7 * (i - 1)) + 1]]]

RECURSIVE CharByChar(_, _, _, _, _)
\* the buffer after draw_char(x + 7 * i, y, upper(text[i])) for i = n, n + 1,
\* ..., len(text) - 1 in this order, ended by the first call that raises
CharByChar(buf, x, y, text, n) ==
    IF n >= Len(text)
    THEN [buffer |-> buf, raised |-> FALSE]
    ELSE LET r == draw_char(buf, x + 7 * n, y, Upper(text[n + 1]))
         IN  IF r.raised THEN r ELSE CharByChar(r.buffer, x, y, text, n + 1)

\* C22: draw_string(x, y, text) leaves the buffer that the calls
\* draw_char(x + 7 * i, y, upper(text[i])), i = 0 .. len(text) - 1 in order,
\* leave.  With x >= 0 and y / 8 a page of the buffer that is: on page y / 8
\* the glyph of every character of the table in the 6 columns from x + 7 * i
\* on, as far as they lie in the buffer; the columns of characters not in
\* the table (which still take up their 7 columns), the spacing columns
\* x + 7 * i + 6 and everything else as before.
C22_StringIsCharByChar ==
    dop.name = "draw_string" =>
        LET x == dop.args[1]
            y == dop.args[2]
            text == dop.args[3]
            r == CharByChar(before, x, y, text, 0)
        IN  /\ buffer = r.buffer
            /\ dpc = (IF r.raised THEN "raised" ELSE "done")
            /\ (x >= 0 /\ 0 <= y \div 8 /\ y \div 8 < pages) =>
                  /\ dpc = "done"
                  /\ buffer = WithGlyphs(before, x, y \div 8, text)
                  /\ \A i \in 0 .. Len(text) - 1 :
                        x + 7 * i + 6 < width =>
                            buffer[y \div 8][x + 7 * i + 6] =
                                before[y \div 8][x + 7 * i + 6]

\* "#A" was drawn at (0, 0): nothing at columns 0..6, the glyph of A from
\* column 7 on
C22_Witness ==
    /\ dpc = "done"
    /\ dop = [name |-> "draw_string", args |-> <<0, 0, <<"#", "A">>>>]
    /\ before[0][1] = 90 /\ buffer[0][1] = 90
    /\ before[0][8] = 165 /\ buffer[0][8] = 124

----------------------------------------------------------------------------
(* Properties of SpiDev *)

\* the call made last has handed data to spi_read_write
Transferred == \E i \in DOMAIN calls : calls[i] = "spi_read_write"

\* C31: whenever a transfer's data is handed to the adapter, the frame size
\* of the last SET_FRAME_SIZE the wrapper has issued is the current
\* bits_per_word, whatever open, bits_per_word assignments and transfers
\* came before.
C31_FrameSizeCurrent == Transferred => frame_size = bits_per_word

XferNames == {"xfer2", "xfer", "writebytes", "readbytes"}

\* C32: with no open() since construction or since the last close() the
\* SpiDev has no client; xfer2, xfer, writebytes and readbytes then end in
\* 'SpiDev not open' and a property assignment stores its value, both with
\* no call on the client.  close() and __exit__ return with the SpiDev
\* without a client whichever of spi_disable and close raised, and make no
\* call when there was no client.
C32_ClosedSpiDevSilent ==
    /\ ~openCalled => client = NoClient
    /\ (~openCalled /\ sop.name \in XferNames) =>
          (sret = "not open" /\ calls = <<>> /\ tx = <<>>)
    /\ (~openCalled /\ sop.name = "max_speed_hz") =>
          (sret = "returned" /\ calls = <<>> /\ max_speed_hz = sop.args[1])
    /\ (~openCalled /\ sop.name = "mode") =>
          (sret = "returned" /\ calls = <<>> /\ mode = sop.args[1] % 4)
    /\ (~openCalled /\ sop.name = "bits_per_word") =>
          (sret = "returned" /\ calls = <<>> /\ bits_per_word = sop.args[1])
    /\ sop.name \in {"close", "__exit__"} =>
          /\ client = NoClient
          /\ sret = "returned"
          /\ clientAtCall = NoClient => calls = <<>>

\* close() of an open SpiDev in which spi_disable and close both raised
C32_Witness ==
    /\ sop.name = "close"
    /\ clientAtCall = "Dln2Usb"
    /\ failed = {"spi_disable", "close"}
    /\ client = NoClient

====
